---- MODULE Spec2Model ----
(***************************************************************************)
(* Model of the chat pipeline of FlaskChatbotApp (src/app.py): the         *)
(* "user-message" socket handler (handle_message), the retrieval gateway   *)
(* (_auto_search_results), the response extractor (_extract_llm_message)   *)
(* and the in-memory stores self.conversations and self.user_documents.    *)
(*                                                                         *)
(* Strings are modelled as sequences of tokens, so that joining,           *)
(* splitting into lines and stripping are computed and not assumed.        *)
(* Python's None is the value None for identifiers and NoneT for texts.    *)
(***************************************************************************)
EXTENDS Integers, Sequences, FiniteSets, TLC

None == "None"

\* ---------------------------------------------------------------- bounds
\* largest CHAT_HISTORY_TURNS the environment is configured with
MaxHistoryCfg == 1
\* number of user-message events accepted over a run
MaxMsgs == 1
\* number of documents stored (uploads and scrapes) over a run
MaxDocAdds == 1
\* number of documents stored over a run of the ingestion tasks alone
MaxStoreAdds == 6
\* number of documents stored over a run of the document routes
MaxRouteAdds == 3
\* largest MAX_DOCS_TO_INJECT the environment is configured with, and the
\* number of documents stored, where the injection is looked at
MaxDocsCfg == 2
MaxInjectDocs == 3
\* messages handled by the invocations that run at the same time
MaxTurnMsgs == 4
\* messages and stored documents, where the keys of the stores are looked at
MaxFrameMsgs == 2
MaxFrameAdds == 2
\* uploads that ran alone before the two tasks the model interleaves
MaxPreload == 4
\* largest number of items the search capability returns
MaxRawItems == 4

\* ------------------------------------------------------- program constants
\* attempts = 3 in the retry loop of handle_message
attempts == 3
\* search_results[:3] in the summary, the payload and the fallback
TopResults == 3
\* "keep only the 5 most recent documents"
DocCap == 5
\* default of MAX_DOCS_TO_INJECT
DefaultMaxDocs == 5

\* ---------------------------------------------------------- input domains
Handlers == {"h1"}
\* the invocations of handle_message that exist, among them the one that
\* runs at the same time as another
Invocations == {"h1", "h2"}
Messages == {"m1", "m2"}
\* payload field 'sessionId' (camelCase) and 'session_id' (snake_case)
CamelIds == {None, "s1"}
SnakeIds == {None, "s2"}
DevSession == "dev-session"
\* payload field 'username'; "" is a falsy username
PayloadUsernames == {"alice", ""}
\* g.current_user of the request: a user name or None (anonymous)
AuthUsers == {"alice", None}
Filenames == {"a.pdf", "b.pdf"}

\* ------------------------------------------------------- python helpers
Min(a, b) == IF a < b THEN a ELSE b
Max(a, b) == IF a > b THEN a ELSE b

\* s[i:] of Python for an integer i of either sign
SliceFrom(s, i) ==
    LET n == Len(s)
        st == IF i < 0 THEN Max(n + i, 0) ELSE Min(i, n)
    IN SubSeq(s, st + 1, n)

\* s[:k] of Python for k >= 0
SliceTo(s, k) == SubSeq(s, 1, Min(k, Len(s)))

\* s[::-1]
Reverse(s) == [i \in 1..Len(s) |-> s[Len(s) + 1 - i]]

\* sep.join(parts) where every part is a sequence of tokens
RECURSIVE Join(_, _)
Join(sep, parts) ==
    IF Len(parts) = 0 THEN <<>>
    ELSE IF Len(parts) = 1 THEN parts[1]
    ELSE parts[1] \o <<sep>> \o Join(sep, Tail(parts))

\* dict.setdefault(key, []) on a store
SetDefault(store, key) ==
    IF key \in DOMAIN store THEN store ELSE store @@ (key :> <<>>)

\* del store[key]
DelKey(store, key) ==
    IF (DOMAIN store) \ {key} = {} THEN <<>>
    ELSE [k \in (DOMAIN store) \ {key} |-> store[k]]

\* a text is a sequence of tokens; '' is <<>> and None is NoneT
NoneT == <<"<None>">>
Text(tok) == <<tok>>

\* truthiness of a text (None and '' are falsy)
Truthy(t) == t # NoneT /\ t # <<>>

\* truthiness of an identifier (None and '' are falsy)
TruthyId(v) == v # None /\ v # ""

\* x or y, for identifiers
OrId(x, y) == IF TruthyId(x) THEN x ELSE y

\* tokens that consist of whitespace only
Whitespace == {" ", "\n"}

\* str.strip(): drop the leading and the trailing whitespace tokens
RECURSIVE LStrip(_)
LStrip(t) == IF Len(t) > 0 /\ Head(t) \in Whitespace THEN LStrip(Tail(t)) ELSE t
Strip(t) == Reverse(LStrip(Reverse(LStrip(t))))

\* str.splitlines()[0] of a non-empty text: the tokens before the first "\n"
RECURSIVE FirstLine(_)
FirstLine(t) ==
    IF Len(t) = 0 \/ Head(t) = "\n" THEN <<>> ELSE <<Head(t)>> \o FirstLine(Tail(t))

\* --------------------------------------------------- response extractor
\* A function call of a response: absent, or a dict with name and arguments,
\* or a value that is not a dict (fc.get raises).
NoFC == [present |-> FALSE, isdict |-> FALSE, name |-> None, arguments |-> None]
\* A delta of a response: absent, or a dict with content, text and message.
NoDelta == [isdict |-> FALSE, content |-> NoneT, text |-> NoneT, message |-> NoneT]
\* The message of a choice: a dict (kind "dict"; a missing or falsy message
\* becomes {} by "or {}"), or a plain string (kind "str").
EmptyMsg == [kind |-> "dict", content |-> NoneT, function_call |-> NoFC,
             delta |-> NoDelta, str |-> NoneT]
EmptyChoice == [isdict |-> TRUE, message |-> EmptyMsg, function_call |-> NoFC,
                text |-> NoneT, delta |-> NoDelta]

\* json.dumps(args, ensure_ascii=False) of the argument values of the model
JsonDumps(args) ==
    CASE args = None -> "null"
      [] args = "{x:1}" -> "{\"x\": 1}"
      [] OTHER -> "\"" \o args \o "\""

\* f"[function_call] {name}({args_str})"
FormatFunctionCall(fc) ==
    <<"[function_call] ", fc.name, "(", JsonDumps(fc.arguments), ")">>

\* content and str(content).strip()
NonBlank(t) == Truthy(t) /\ Strip(t) # <<>>

\* for k in ('content', 'text', 'message'): first non-blank delta.get(k)
DeltaText(delta) ==
    IF NonBlank(delta.content) THEN delta.content
    ELSE IF NonBlank(delta.text) THEN delta.text
    ELSE IF NonBlank(delta.message) THEN delta.message
    ELSE <<>>

\* The attribute branch of _extract_llm_message (response.choices[0])
ExtractFromAttrs(choices) ==
    IF Len(choices) = 0 THEN <<>>
    ELSE LET ch == choices[1]
             msg == ch.message
         IN IF msg.kind = "dict" /\ NonBlank(msg.content) THEN msg.content
            ELSE IF msg.kind = "dict" /\ msg.function_call.present
                 THEN FormatFunctionCall(msg.function_call)
            ELSE IF Truthy(ch.text) THEN ch.text
            ELSE <<>>

\* ExtractFromDict in the order of the docstring: the text field is tried
\* before the function call
ExtractFromDict_TextFirst(choices) ==
    IF Len(choices) = 0 THEN [out |-> "fall", text |-> <<>>]
    ELSE LET c == choices[1]
             msg == c.message
             fc == IF msg.function_call.present THEN msg.function_call
                   ELSE c.function_call
             delta == IF c.delta.isdict THEN c.delta ELSE msg.delta
         IN IF ~c.isdict THEN [out |-> "raise", text |-> <<>>]
            ELSE IF msg.kind = "str"
                 THEN IF Truthy(msg.str) /\ Strip(msg.str) # <<>>
                      THEN [out |-> "return", text |-> msg.str]
                      ELSE [out |-> "fall", text |-> <<>>]
            ELSE IF NonBlank(msg.content)
                 THEN [out |-> "return", text |-> msg.content]
            ELSE IF NonBlank(c.text)
                 THEN [out |-> "return", text |-> c.text]
            ELSE IF fc.present
                 THEN IF fc.isdict
                      THEN [out |-> "return", text |-> FormatFunctionCall(fc)]
                      ELSE [out |-> "raise", text |-> <<>>]
            ELSE IF delta.isdict /\ DeltaText(delta) # <<>>
                 THEN [out |-> "return", text |-> DeltaText(delta)]
            ELSE [out |-> "fall", text |-> <<>>]

\* The dict branch of _extract_llm_message; "raise" when a .get fails,
\* "fall" when the branch ends without a return
ExtractFromDict(choices) ==
    IF Len(choices) = 0 THEN [out |-> "fall", text |-> <<>>]
    ELSE LET c == choices[1]
             msg == c.message
             fc == IF msg.function_call.present THEN msg.function_call
                   ELSE c.function_call
             delta == IF c.delta.isdict THEN c.delta ELSE msg.delta
         IN IF ~c.isdict THEN [out |-> "raise", text |-> <<>>]
            ELSE IF msg.kind = "str"
                 THEN IF Truthy(msg.str) /\ Strip(msg.str) # <<>>
                      THEN [out |-> "return", text |-> msg.str]
                      ELSE [out |-> "fall", text |-> <<>>]
            ELSE IF NonBlank(msg.content)
                 THEN [out |-> "return", text |-> msg.content]
            ELSE IF fc.present
                 THEN IF fc.isdict
                      THEN [out |-> "return", text |-> FormatFunctionCall(fc)]
                      ELSE [out |-> "raise", text |-> <<>>]
            ELSE IF NonBlank(c.text)
                 THEN [out |-> "return", text |-> c.text]
            ELSE IF delta.isdict /\ DeltaText(delta) # <<>>
                 THEN [out |-> "return", text |-> DeltaText(delta)]
            ELSE [out |-> "fall", text |-> <<>>]

\* _extract_llm_message(response): response.kind is "sdk" (to_dict() and
\* attributes), "dict" (a plain dict), "obj" (attributes only) or "other"
_extract_llm_message(response) ==
    LET d == IF response.kind \in {"sdk", "dict"}
             THEN ExtractFromDict(response.choices)
             ELSE [out |-> "fall", text |-> <<>>]
    IN IF d.out = "return" THEN d.text
       ELSE IF d.out = "raise" THEN <<>>
       ELSE IF response.kind \in {"sdk", "obj"}
            THEN ExtractFromAttrs(response.choices)
            ELSE <<>>

\* ExtractorRaises without the outer try: the exception of a .get on a
\* value that is not a dict leaves the extractor
ExtractorRaises_NoOuterTry(response) ==
    /\ response.kind \in {"sdk", "dict"}
    /\ ExtractFromDict(response.choices).out = "raise"

\* an exception leaves _extract_llm_message(response): never, the body is
\* inside "try: ... except Exception: pass" (lines 1588 and 1659-1660)
ExtractorRaises(response) ==
    /\ response.kind \in {"sdk", "dict"}
    /\ ExtractFromDict(response.choices).out = "raise"
    /\ FALSE

ContentResponse(kind, t) ==
    [kind |-> kind,
     choices |-> << [EmptyChoice EXCEPT !.message = [EmptyMsg EXCEPT !.content = t]] >>]
NoResponse == [kind |-> "other", choices |-> <<>>]

\* responses of the main completion call
MainResponses ==
    { ContentResponse("sdk", <<"answer">>),
      ContentResponse("sdk", <<>>),
      ContentResponse("dict", <<" ">>) }

\* responses of the query-refinement call
HelperResponses ==
    { ContentResponse("sdk", <<" ", "q1", " ", "\n", "more">>),
      ContentResponse("sdk", <<>>),
      [kind |-> "sdk",
       choices |-> << [EmptyChoice EXCEPT !.text = <<" ", "\n", "q1">>] >>] }

\* a function call {"name": ..., "arguments": ...}
FunctionCall(name, arguments) ==
    [present |-> TRUE, isdict |-> TRUE, name |-> name, arguments |-> arguments]
\* a delta {"content": ..., "text": ..., "message": ...}
Delta(content, text, message) ==
    [isdict |-> TRUE, content |-> content, text |-> text, message |-> message]

\* the first choice of a dict response whose fields have the documented
\* types: a message dict with or without content, function call and delta,
\* and the choice's own function call, text and delta
TypedChoices ==
    { [isdict |-> TRUE,
       message |-> [kind |-> "dict", content |-> content, function_call |-> mfc,
                    delta |-> mdelta, str |-> NoneT],
       function_call |-> cfc, text |-> text, delta |-> cdelta] :
        content \in {NoneT, <<>>, <<" ">>, <<"answer">>},
        mfc \in {NoFC, FunctionCall("f", "{x:1}")},
        cfc \in {NoFC, FunctionCall("g", None)},
        text \in {NoneT, <<" ">>, <<"txt">>},
        cdelta \in {NoDelta, Delta(<<" ">>, <<"dt">>, NoneT),
                    Delta(NoneT, <<>>, <<"dm">>), Delta(<<"dc">>, <<"dt">>, NoneT)},
        mdelta \in {NoDelta, Delta(<<"md">>, NoneT, NoneT)} }

\* first choices with a field of another type: a message that is a plain
\* string, a function call that is not a dict, a choice that is not a dict
UntypedChoices ==
    { [EmptyChoice EXCEPT !.message = [EmptyMsg EXCEPT !.kind = "str", !.str = <<"hello">>],
                          !.text = <<"txt">>],
      [EmptyChoice EXCEPT !.message = [EmptyMsg EXCEPT !.kind = "str", !.str = <<" ">>],
                          !.text = <<"txt">>],
      [EmptyChoice EXCEPT !.function_call = [FunctionCall("f", None) EXCEPT !.isdict = FALSE],
                          !.text = <<"txt">>],
      [EmptyChoice EXCEPT !.isdict = FALSE, !.text = <<"txt">>] }

\* the responses the extractor is given: plain dicts with one choice, with
\* no choice, and the other shapes
ExtractorResponses ==
    { [kind |-> "dict", choices |-> <<c>>] : c \in TypedChoices \cup UntypedChoices }
    \cup { [kind |-> k, choices |-> <<>>] : k \in {"dict", "sdk", "obj", "other"} }
    \cup { [kind |-> k, choices |-> << [EmptyChoice EXCEPT !.text = <<" ">>] >>] :
             k \in {"sdk", "obj"} }

\* ------------------------------------------------------ retrieval gateway
\* the i-th item the search capability returns; providers name the link
\* 'link', 'url' or 'href', and an item may lack a title or any link
RawItem(i) ==
    [isdict |-> TRUE,
     title |-> IF i = 4 THEN None ELSE "title" \o ToString(i),
     snippet |-> "snippet" \o ToString(i),
     link |-> IF i = 2 THEN "" ELSE IF i \in {3, 4} THEN None ELSE "link" \o ToString(i),
     url |-> IF i = 2 THEN "url2" ELSE None,
     href |-> IF i = 3 THEN "href3" ELSE None]
\* an item that is not a dict: item.get raises
BadItem == [RawItem(1) EXCEPT !.isdict = FALSE]

\* what google_search does: raise, return None, or return a list of items
SearchOutcomes ==
    { [raises |-> TRUE, isnone |-> FALSE, raw |-> <<>>],
      [raises |-> FALSE, isnone |-> TRUE, raw |-> <<>>],
      [raises |-> FALSE, isnone |-> FALSE, raw |-> <<RawItem(1), BadItem>>] }
    \cup { [raises |-> FALSE, isnone |-> FALSE, raw |-> [i \in 1..n |-> RawItem(i)]] :
           n \in {0, TopResults - 1, MaxRawItems} }

\* item.get(key, '') for a key that is missing (None)
GetOr(v, d) == IF v = None THEN d ELSE v

\* the normalisation loop body of _auto_search_results
NormalizeItem(item) ==
    [item EXCEPT !.title = GetOr(item.title, ""),
                 !.snippet = GetOr(item.snippet, ""),
                 !.link = OrId(item.link, OrId(item.url, OrId(item.href, "")))]

\* ENABLE_AUTO_SEARCH values that enable the search
SearchEnabled(v) == v \in {"1", "true", "yes", "on"}

\* the search raises, or the normalisation raises on a malformed item
SearchFails(outcome) ==
    outcome.raises \/ \E i \in 1..Len(outcome.raw) : ~outcome.raw[i].isdict

\* the items normalised before the first malformed one
RECURSIVE NormalizedPrefix(_)
NormalizedPrefix(raw) ==
    IF raw = <<>> \/ ~Head(raw).isdict THEN <<>>
    ELSE <<NormalizeItem(Head(raw))>> \o NormalizedPrefix(Tail(raw))

\* _auto_search_results that collects the items as it normalises them and
\* does not reset the list in the except clause
_auto_search_results_Partial(enable, outcome) ==
    IF ~SearchEnabled(enable) THEN <<>>
    ELSE IF outcome.raises \/ outcome.isnone THEN <<>>
    ELSE NormalizedPrefix(outcome.raw)

\* _auto_search_results(query): the list it returns for one outcome of the
\* search capability
_auto_search_results(enable, outcome) ==
    IF ~SearchEnabled(enable) THEN <<>>
    ELSE IF SearchFails(outcome) THEN <<>>
    ELSE IF outcome.isnone THEN <<>>
    ELSE [i \in 1..Len(outcome.raw) |-> NormalizeItem(outcome.raw[i])]

\* whether an exception leaves _auto_search_results: the whole body is
\* inside try/except Exception, so none does
GatewayRaises(enable, outcome) == FALSE

\* f"{idx + 1}. {title} - {snippet} (URL: {link})"
ResultLine(idx, r) ==
    <<ToString(idx), ". ", r.title, " - ", r.snippet, " (URL: ", r.link, ")">>

\* the numbered lines of search_results[:3]
ResultLines(results) ==
    [i \in 1..Len(SliceTo(results, TopResults)) |-> ResultLine(i, results[i])]

InabilitySentence == "I couldn't generate a reply right now. Here are some useful search results I found:"
\* FallbackText without the [:3] slice
FallbackText_AllResults(results) ==
    <<InabilitySentence, "\n">>
        \o Join("\n", [i \in 1..Len(results) |-> ResultLine(i, results[i])])

\* "I couldn't generate a reply right now. Here are some useful search
\* results I found:\n" + "\n".join(fallback_lines)
FallbackText(results) ==
    <<InabilitySentence, "\n">> \o Join("\n", ResultLines(results))

\* ------------------------------------------------------------------ state
VARIABLES
    env,             \* os.environ: CHAT_HISTORY_TURNS, MAX_DOCS_TO_INJECT, DEV_MODE, ENABLE_AUTO_SEARCH
    conversations,   \* self.conversations: session id -> list of turns
    user_documents,  \* self.user_documents: user id -> list of documents
    pc,              \* position of each handler invocation in handle_message
    loc,             \* local variables of each handler invocation
    clock,           \* datetime.now(): strictly increasing stamp
    accepted,        \* number of user-message events received so far
    docAdds,         \* number of documents stored so far (stamps the documents)
    appended,        \* history: session id -> every turn ever appended to its buffer
    inserted,        \* history: user id -> the documents stored since its collection was last cut
    reply,           \* the reply of the document route served last, with the store it found
    tasks,           \* the background threads process_file / process_url: position and locals
    progress_data    \* self.progress_data: task id -> progress and completion

vars == <<env, conversations, user_documents, pc, loc, clock, accepted, docAdds, appended,
          inserted, reply, tasks, progress_data>>

NoTurn == [role |-> None, content |-> <<>>, username |-> None, timestamp |-> 0]

\* no document route has replied yet
NoReply == [route |-> None, user |-> None, filename |-> None, status |-> 0,
            documents |-> <<>>, before |-> <<>>]

\* the local variable conversation of an invocation: shared tells that it
\* is the very list self.conversations holds for the session; once another
\* list was assigned to the session it is a list of its own, value
NoList == [shared |-> FALSE, value |-> <<>>]

\* the locals of handle_message before the handler has run
IdleLoc ==
    [data |-> [sessionId |-> None, session_id |-> None],
     message |-> <<>>, session_id |-> None, username |-> None,
     dropped |-> FALSE, turn |-> NoTurn,
     history_messages |-> <<>>, helper_text |-> NoneT, suggested_query |-> NoneT,
     search_results |-> <<>>, summary |-> NoneT, user_docs |-> <<>>,
     docs_summary |-> NoneT, injected |-> <<>>,
     messages |-> <<>>, i |-> 0, last_err |-> FALSE, response |-> NoResponse,
     emitted |-> <<>>,       \* events emitted by this invocation
     llm_calls |-> <<>>,     \* calls of openai_client.chat.completions.create
     search_calls |-> <<>>,  \* queries passed to google_search
     sleeps |-> 0,           \* calls of time.sleep(2)
     faults |-> {},          \* "search", "docs": steps in which a collaborator raised
     sender |-> None,        \* the authenticated sender, as the documents step saw it
     conversation |-> NoList, \* the list setdefault returned (step-by-step recording)
     trimmed |-> <<>>]       \* conversation[-(max_history_turns * 2):] before its assignment

\* the background threads the model follows
Tasks == {"t1", "t2"}

\* a thread that was not started: kind is "upload" or "scrape", user the
\* current user of the request that started it; absent, over and kept are
\* what the thread read from the store in its last steps; set lists the
\* progress values the thread has set, stored tells that it appended its
\* document
IdleTask ==
    [pc |-> "idle", kind |-> None, user |-> None, filename |-> None, content |-> NoneT,
     absent |-> FALSE, over |-> FALSE, kept |-> <<>>, set |-> <<>>, stored |-> FALSE]

\* FlaskChatbotApp.__init__: empty stores, no request in progress
Constructed ==
    /\ conversations = <<>>
    /\ user_documents = <<>>
    /\ pc = [h \in Invocations |-> "idle"]
    /\ loc = [h \in Invocations |-> IdleLoc]
    /\ clock = 1
    /\ accepted = 0
    /\ docAdds = 0
    /\ appended = <<>>
    /\ inserted = <<>>
    /\ reply = NoReply
    /\ tasks = [t \in Tasks |-> IdleTask]
    /\ progress_data = <<>>

Init ==
    /\ env \in [CHAT_HISTORY_TURNS : 0..MaxHistoryCfg,
                MAX_DOCS_TO_INJECT : {DefaultMaxDocs},
                DEV_MODE : {"production", "dev"},
                ENABLE_AUTO_SEARCH : {"true", "false"}]
    /\ Constructed

\* emit(type, ..., to=session_id)
Event(type, to) == [type |-> type, to |-> to, text |-> <<>>, searchResults |-> <<>>]

\* handle_message, lines 803-807: strict mode rejects a payload that has
\* neither a camelCase nor a snake_case session id
RejectsPayload_InvertedMode(dev_mode, sessionId, snake_id) ==
    dev_mode = "dev" /\ ~TruthyId(sessionId) /\ ~TruthyId(snake_id)
RejectsPayload(dev_mode, sessionId, snake_id) ==
    dev_mode # "dev" /\ ~TruthyId(sessionId) /\ ~TruthyId(snake_id)

\* handle_message, lines 786-848: read the payload, enforce the session id
\* (strict mode) or normalise it (dev mode), echo the message twice
Accept(h, message, sessionId, snake_id, username) ==
    /\ pc[h] = "idle"
    /\ accepted' = accepted + 1
    /\ IF RejectsPayload(env.DEV_MODE, sessionId, snake_id)
       THEN /\ pc' = [pc EXCEPT ![h] = "done"]
            /\ loc' = [loc EXCEPT ![h] =
                   [IdleLoc EXCEPT !.data = [sessionId |-> sessionId, session_id |-> snake_id],
                                   !.message = message, !.session_id = sessionId,
                                   !.username = username,
                                   !.dropped = TRUE]]
       ELSE LET session_id == IF env.DEV_MODE # "dev" THEN sessionId
                              ELSE OrId(snake_id, OrId(sessionId, DevSession))
            IN /\ pc' = [pc EXCEPT ![h] = "record"]
               /\ loc' = [loc EXCEPT ![h] =
                      [IdleLoc EXCEPT !.data = [sessionId |-> sessionId,
                                                 session_id |-> IF env.DEV_MODE # "dev"
                                                                THEN snake_id ELSE session_id],
                                      !.message = message, !.session_id = session_id,
                                      !.username = username,
                                      !.emitted = << Event("user-message", session_id),
                                                     Event("user-message", session_id) >>]]
    /\ UNCHANGED <<tasks, progress_data, env, conversations, user_documents, clock, docAdds, appended, inserted, reply>>

\* a user-message event arrives while no other is being handled
Receive(h, message, sessionId, snake_id, username) ==
    /\ \A g \in Handlers : pc[g] = "idle"
    /\ accepted < MaxMsgs
    /\ Accept(h, message, sessionId, snake_id, username)

\* AppendAndTrim with conversation[:max_history_turns * 2] as the trim
AppendAndTrim_KeepOldest(conversation, turn, max_history_turns) ==
    LET appendedList == Append(conversation, turn)
    IN IF Len(appendedList) > max_history_turns * 2
       THEN SliceTo(appendedList, max_history_turns * 2)
       ELSE appendedList

\* the list handle_message leaves in self.conversations[session_id] after
\* conversation.append(turn) and the trim to max_history_turns * 2
AppendAndTrim(conversation, turn, max_history_turns) ==
    LET appendedList == Append(conversation, turn)
    IN IF Len(appendedList) > max_history_turns * 2
       THEN SliceFrom(appendedList, -(max_history_turns * 2))
       ELSE appendedList

\* handle_message, lines 850-862: record the user turn in the buffer
RecordUserTurn(h) ==
    /\ pc[h] = "record"
    /\ LET sid == loc[h].session_id
           turn == [role |-> "user", content |-> loc[h].message,
                    username |-> loc[h].username, timestamp |-> clock]
           store == SetDefault(conversations, sid)
       IN /\ conversations' =
                 [store EXCEPT ![sid] = AppendAndTrim(store[sid], turn, env.CHAT_HISTORY_TURNS)]
          /\ appended' = [SetDefault(appended, sid) EXCEPT
                             ![sid] = Append(SetDefault(appended, sid)[sid], turn)]
          /\ loc' = [loc EXCEPT ![h].turn = turn]
    /\ clock' = clock + 1
    /\ pc' = [pc EXCEPT ![h] = "history"]
    /\ UNCHANGED <<tasks, progress_data, env, user_documents, accepted, docAdds, inserted, reply>>

\* the recording of the user turn, statement by statement, for
\* invocations that run in threads of their own
\* the list the local variable conversation of invocation h refers to
CurrentList(h) ==
    IF loc[h].conversation.shared THEN conversations[loc[h].session_id]
    ELSE loc[h].conversation.value

\* line 852: conversation = self.conversations.setdefault(session_id, [])
GetConversation(h) ==
    /\ pc[h] = "record"
    /\ conversations' = SetDefault(conversations, loc[h].session_id)
    /\ loc' = [loc EXCEPT ![h].conversation = [shared |-> TRUE, value |-> <<>>]]
    /\ pc' = [pc EXCEPT ![h] = "append"]
    /\ UNCHANGED <<tasks, progress_data, env, user_documents, clock, accepted, docAdds,
                   appended, inserted, reply>>

\* line 854: conversation.append({...}), on the list conversation refers to
AppendTurn(h) ==
    /\ pc[h] = "append"
    /\ LET sid == loc[h].session_id
           turn == [role |-> "user", content |-> loc[h].message,
                    username |-> loc[h].username, timestamp |-> clock]
       IN /\ IF loc[h].conversation.shared
             THEN /\ conversations' = [conversations EXCEPT ![sid] = Append(@, turn)]
                  /\ loc' = [loc EXCEPT ![h].turn = turn]
             ELSE /\ UNCHANGED conversations
                  /\ loc' = [loc EXCEPT ![h].turn = turn,
                                        ![h].conversation.value = Append(@, turn)]
          /\ appended' = [SetDefault(appended, sid) EXCEPT
                             ![sid] = Append(SetDefault(appended, sid)[sid], turn)]
    /\ clock' = clock + 1
    /\ pc' = [pc EXCEPT ![h] = "len"]
    /\ UNCHANGED <<tasks, progress_data, env, user_documents, accepted, docAdds, inserted, reply>>

\* lines 856-857: if len(conversation) > max_history_turns * 2
CheckTurns(h) ==
    /\ pc[h] = "len"
    /\ pc' = [pc EXCEPT ![h] = IF Len(CurrentList(h)) > env.CHAT_HISTORY_TURNS * 2
                               THEN "slice" ELSE "history"]
    /\ UNCHANGED <<tasks, progress_data, env, conversations, user_documents, loc, clock,
                   accepted, docAdds, appended, inserted, reply>>

\* line 859, right-hand side: conversation[-(max_history_turns * 2):]
SliceTurns(h) ==
    /\ pc[h] = "slice"
    /\ loc' = [loc EXCEPT ![h].trimmed =
                   SliceFrom(CurrentList(h), -(env.CHAT_HISTORY_TURNS * 2))]
    /\ pc' = [pc EXCEPT ![h] = "assign"]
    /\ UNCHANGED <<tasks, progress_data, env, conversations, user_documents, clock, accepted,
                   docAdds, appended, inserted, reply>>

\* line 859, the assignment: self.conversations[session_id] = ...; the
\* invocations whose conversation was the list of the session keep that
\* list, which the store holds no more
AssignTurns(h) ==
    /\ pc[h] = "assign"
    /\ LET sid == loc[h].session_id
           was == IF sid \in DOMAIN conversations THEN conversations[sid] ELSE <<>>
       IN /\ conversations' = [k \in DOMAIN conversations \cup {sid} |->
                                  IF k = sid THEN loc[h].trimmed ELSE conversations[k]]
          /\ loc' = [g \in Invocations |->
                        IF loc[g].conversation.shared /\ loc[g].session_id = sid
                        THEN [loc[g] EXCEPT !.conversation = [shared |-> FALSE, value |-> was]]
                        ELSE loc[g]]
    /\ pc' = [pc EXCEPT ![h] = "history"]
    /\ UNCHANGED <<tasks, progress_data, env, user_documents, clock, accepted, docAdds,
                   appended, inserted, reply>>

\* {"role": ..., "content": ...}
Block(role, content) == [role |-> role, content |-> content]

\* the history_messages built from conversation[-max_history_turns:]
HistoryMessages(conversation, max_history_turns) ==
    LET history_slice == SliceFrom(conversation, -max_history_turns)
    IN [k \in 1..Len(history_slice) |->
           IF history_slice[k].role = "user"
           THEN Block("user", history_slice[k].content)
           ELSE Block("assistant", history_slice[k].content)]

\* handle_message, lines 879-890: build the history blocks
BuildHistory(h) ==
    /\ pc[h] = "history"
    /\ LET sid == loc[h].session_id
           store == SetDefault(conversations, sid)
       IN /\ conversations' = store
          /\ loc' = [loc EXCEPT ![h].history_messages =
                         HistoryMessages(store[sid], env.CHAT_HISTORY_TURNS)]
    /\ pc' = [pc EXCEPT ![h] = "refine"]
    /\ UNCHANGED <<tasks, progress_data, env, user_documents, clock, accepted, docAdds, appended, inserted, reply>>

\* the user turn of invocation h is in the buffer of its session
TurnRecorded(h) ==
    /\ loc[h].turn # NoTurn
    /\ loc[h].session_id \in DOMAIN conversations
    /\ \E k \in 1..Len(conversations[loc[h].session_id]) :
           conversations[loc[h].session_id][k] = loc[h].turn

\* one call of self.openai_client.chat.completions.create, as logged:
\* recorded tells whether the user turn was in the buffer when it was made
LlmCall(h, kind, messages, raised) ==
    [kind |-> kind, messages |-> messages, raised |-> raised, recorded |-> TurnRecorded(h)]

SearchSystem == "SEARCH_SYSTEM_PROMPT"
\* search_messages of the query-refinement call
SearchMessages(history_messages, message) ==
    <<Block("system", <<SearchSystem>>)>> \o history_messages
        \o <<Block("user", <<"Generate a one-line search query for this user request: ">> \o message)>>

\* SuggestedQuery that keeps the whole stripped text, not its first line
SuggestedQuery_WholeText(helper_text) ==
    IF Truthy(helper_text) THEN Strip(helper_text) ELSE NoneT

\* suggested_query for the helper_text extracted from the helper response:
\* helper_text.splitlines()[0].strip(), None when helper_text is falsy
SuggestedQuery(helper_text) ==
    IF Truthy(helper_text) THEN Strip(FirstLine(helper_text)) ELSE NoneT

\* RefineQuery without the try/except: the exception of the helper call
\* reaches the client as an error event
RefineQuery_Propagates(h, raises, helper_resp) ==
    /\ pc[h] = "refine"
    /\ LET msgs == SearchMessages(loc[h].history_messages, loc[h].message)
       IN loc' = [loc EXCEPT
                     ![h].llm_calls = Append(@, LlmCall(h, "refine", msgs, raises)),
                     ![h].emitted = IF raises
                                    THEN Append(@, Event("error", loc[h].session_id)) ELSE @,
                     ![h].helper_text =
                         IF raises THEN NoneT ELSE _extract_llm_message(helper_resp),
                     ![h].suggested_query =
                         IF raises THEN NoneT
                         ELSE SuggestedQuery(_extract_llm_message(helper_resp))]
    /\ pc' = [pc EXCEPT ![h] = IF raises THEN "done" ELSE "search"]
    /\ UNCHANGED <<tasks, progress_data, env, conversations, user_documents, clock, accepted, docAdds, appended, inserted, reply>>

\* handle_message, lines 892-937: ask the model for a search query; any
\* exception leaves suggested_query = None
RefineQuery(h, raises, helper_resp) ==
    /\ pc[h] = "refine"
    /\ LET msgs == SearchMessages(loc[h].history_messages, loc[h].message)
       IN loc' = [loc EXCEPT
                     ![h].llm_calls = Append(@, LlmCall(h, "refine", msgs, raises)),
                     ![h].helper_text =
                         IF raises THEN NoneT ELSE _extract_llm_message(helper_resp),
                     ![h].suggested_query =
                         IF raises THEN NoneT
                         ELSE SuggestedQuery(_extract_llm_message(helper_resp))]
    /\ pc' = [pc EXCEPT ![h] = "search"]
    /\ UNCHANGED <<tasks, progress_data, env, conversations, user_documents, clock, accepted, docAdds, appended, inserted, reply>>

\* "\n".join(summary_lines) of search_results[:3], None without results
Summary(search_results) ==
    IF search_results = <<>> THEN NoneT ELSE Join("\n", ResultLines(search_results))

\* query_for_search = suggested_query if suggested_query else message
QueryForSearch(suggested_query, message) ==
    IF Truthy(suggested_query) THEN suggested_query ELSE message

\* handle_message, lines 939-956: run the auto-search on the suggested
\* query (or the raw message) and summarise the results; the call is
\* outside every try of the handler (the outer one starts at line 1012),
\* so an exception leaving the gateway would end the handler without any
\* event
Search(h, outcome) ==
    /\ pc[h] = "search"
    /\ LET query_for_search == QueryForSearch(loc[h].suggested_query, loc[h].message)
           results == _auto_search_results(env.ENABLE_AUTO_SEARCH, outcome)
           raised == GatewayRaises(env.ENABLE_AUTO_SEARCH, outcome)
       IN /\ loc' = [loc EXCEPT
                        ![h].search_calls =
                            IF SearchEnabled(env.ENABLE_AUTO_SEARCH)
                            THEN Append(@, query_for_search) ELSE @,
                        ![h].faults =
                            IF SearchEnabled(env.ENABLE_AUTO_SEARCH) /\ SearchFails(outcome)
                            THEN @ \cup {"search"} ELSE @,
                        ![h].search_results = IF raised THEN <<>> ELSE results,
                        ![h].summary = IF raised THEN NoneT ELSE Summary(results)]
          /\ pc' = [pc EXCEPT ![h] = IF raised THEN "done" ELSE "docs"]
    /\ UNCHANGED <<tasks, progress_data, env, conversations, user_documents, clock, accepted, docAdds, appended, inserted, reply>>

\* the routes wrapped in @sso_token_required, which sets g.current_user
\* (sso_client_utils.py, line 224) for the request it lets through
Decorated == {"upload", "scrape", "remove", "list", "user-message"}

\* get_current_user() while a route or a socket handler serves a request of
\* caller: flask.g lives for one request, so g.current_user is what the
\* decorator of this very route stored, and None when the route has none
get_current_user(route, caller) == IF route \in Decorated THEN caller ELSE None

\* self.user_documents.get(key, [])
DocsOf(key) == IF key \in DOMAIN user_documents THEN user_documents[key] ELSE <<>>

\* _get_current_user_documents(username) for the request's current user
_get_current_user_documents(username, user) ==
    LET name == IF ~TruthyId(username)
                THEN (IF user = None THEN None ELSE user)
                ELSE username
    IN IF ~TruthyId(name) THEN <<>> ELSE DocsOf(name)

\* user_docs[-max_docs:][::-1]
DocsToInject(user_docs, max_docs) == Reverse(SliceFrom(user_docs, -max_docs))

\* f"Filename: {fname}\n{content}"
DocLine(d) == <<"Filename: ", d.filename, "\n">> \o d.content

DocSeparator == "\n\n---\n\n"

SystemMsg == "CHAT_SYSTEM_PROMPT"
TopResultsHeader == "Top search results:\n"
DocSystemInstructions == "You have the user's uploaded documents available as pages in hand. ...\n\n"
TimeContext == "Current user local time: ..."

\* ComposeMessages with the documents block placed right after the system
\* instruction, as prompt_parts.insert(1, ...) does for the flat prompt
ComposeMessages_DocsFirst(history_messages, summary, docs_summary, message) ==
    <<Block("system", <<SystemMsg>>)>>
    \o (IF Truthy(docs_summary)
        THEN <<Block("system", <<DocSystemInstructions>> \o docs_summary)>> ELSE <<>>)
    \o history_messages
    \o (IF Truthy(summary) THEN <<Block("system", <<TopResultsHeader>> \o summary)>> ELSE <<>>)
    \o <<Block("user", <<TimeContext, "\n\nUser Query: ">> \o message)>>

\* the messages list of the final call, lines 1021-1050
ComposeMessages(history_messages, summary, docs_summary, message) ==
    <<Block("system", <<SystemMsg>>)>>
    \o history_messages
    \o (IF Truthy(summary) THEN <<Block("system", <<TopResultsHeader>> \o summary)>> ELSE <<>>)
    \o (IF Truthy(docs_summary)
        THEN <<Block("system", <<DocSystemInstructions>> \o docs_summary)>> ELSE <<>>)
    \o <<Block("user", <<TimeContext, "\n\nUser Query: ">> \o message)>>

\* handle_message, lines 960-1105: collect the documents to inject (caller
\* is the authenticated sender of the message; an exception in the block
\* leaves docs_summary = None), then compose the messages of the final call
LookupDocsAndCompose(h, raises, caller) ==
    /\ pc[h] = "docs"
    /\ LET username == loc[h].username
           user == get_current_user("user-message", caller)
           user_docs == IF TruthyId(username) /\ username \in DOMAIN user_documents
                        THEN DocsOf(username)
                        ELSE _get_current_user_documents(username, user)
           chosen == DocsToInject(user_docs, env.MAX_DOCS_TO_INJECT)
           docs_summary ==
               IF raises \/ user_docs = <<>> THEN NoneT
               ELSE Join(DocSeparator, [k \in 1..Len(chosen) |-> DocLine(chosen[k])])
       IN loc' = [loc EXCEPT
                     ![h].faults = IF raises THEN @ \cup {"docs"} ELSE @,
                     ![h].sender = caller,
                     ![h].user_docs = IF raises THEN <<>> ELSE user_docs,
                     ![h].injected = IF raises \/ user_docs = <<>> THEN <<>> ELSE chosen,
                     ![h].docs_summary = docs_summary,
                     ![h].messages = ComposeMessages(loc[h].history_messages, loc[h].summary,
                                                     docs_summary, loc[h].message),
                     ![h].i = 0,
                     ![h].last_err = FALSE]
    /\ pc' = [pc EXCEPT ![h] = "call"]
    /\ UNCHANGED <<tasks, progress_data, env, conversations, user_documents, clock, accepted, docAdds, appended, inserted, reply>>

\* the text of the bot-response: the extracted message, or the fallback
\* built from search_results[:3] when it is empty or blank
DeliveredText(response, search_results) ==
    LET llm_message == _extract_llm_message(response)
    IN IF ~Truthy(llm_message) \/ Strip(llm_message) = <<>>
       THEN FallbackText(search_results)
       ELSE llm_message

\* handle_message, lines 1107-1121: an attempt of the retry loop raises and
\* another attempt follows after time.sleep(2)
AttemptFails(h) ==
    /\ pc[h] = "call"
    /\ loc[h].i + 1 < attempts
    /\ loc' = [loc EXCEPT
                  ![h].llm_calls = Append(@, LlmCall(h, "main", loc[h].messages, TRUE)),
                  ![h].last_err = TRUE,
                  ![h].sleeps = @ + 1,
                  ![h].i = @ + 1]
    /\ UNCHANGED <<tasks, progress_data, env, conversations, user_documents, pc, clock, accepted, docAdds, appended, inserted, reply>>

\* LastAttemptFails that falls through to the fallback reply instead of
\* re-raising last_err
LastAttemptFails_FallsBack(h) ==
    /\ pc[h] = "call"
    /\ loc[h].i + 1 = attempts
    /\ loc' = [loc EXCEPT
                  ![h].llm_calls = Append(@, LlmCall(h, "main", loc[h].messages, TRUE)),
                  ![h].last_err = TRUE,
                  ![h].sleeps = @ + 1,
                  ![h].i = @ + 1,
                  ![h].emitted =
                      Append(@, [type |-> "bot-response", to |-> loc[h].session_id,
                                 text |-> FallbackText(loc[h].search_results),
                                 searchResults |-> loc[h].search_results])]
    /\ pc' = [pc EXCEPT ![h] = "done"]
    /\ UNCHANGED <<tasks, progress_data, env, conversations, user_documents, clock, accepted, docAdds, appended, inserted, reply>>

\* handle_message, lines 1107-1125 and 1179-1184: the last attempt raises
\* too; after the sleep the loop ends, last_err is re-raised and the outer
\* handler emits the error event
LastAttemptFails(h) ==
    /\ pc[h] = "call"
    /\ loc[h].i + 1 = attempts
    /\ loc' = [loc EXCEPT
                  ![h].llm_calls = Append(@, LlmCall(h, "main", loc[h].messages, TRUE)),
                  ![h].last_err = TRUE,
                  ![h].sleeps = @ + 1,
                  ![h].i = @ + 1,
                  ![h].emitted = Append(@, Event("error", loc[h].session_id))]
    /\ pc' = [pc EXCEPT ![h] = "done"]
    /\ UNCHANGED <<tasks, progress_data, env, conversations, user_documents, clock, accepted, docAdds, appended, inserted, reply>>

\* AttemptSucceeds without the break: the loop goes on to the next attempt
AttemptSucceeds_NoBreak(h, resp) ==
    /\ pc[h] = "call"
    /\ loc[h].i < attempts
    /\ loc' = [loc EXCEPT
                  ![h].llm_calls = Append(@, LlmCall(h, "main", loc[h].messages, FALSE)),
                  ![h].response = resp,
                  ![h].last_err = FALSE,
                  ![h].i = @ + 1,
                  ![h].emitted =
                      IF loc[h].i + 1 < attempts THEN @
                      ELSE Append(@, [type |-> "bot-response", to |-> loc[h].session_id,
                                      text |-> DeliveredText(resp, loc[h].search_results),
                                      searchResults |-> loc[h].search_results])]
    /\ pc' = [pc EXCEPT ![h] = IF loc[h].i + 1 < attempts THEN "call" ELSE "done"]
    /\ UNCHANGED <<tasks, progress_data, env, conversations, user_documents, clock, accepted, docAdds, appended, inserted, reply>>

\* AttemptSucceeds with the trace after the emit (lines 1173-1178) outside
\* its own try: its exception reaches the outer handler, which emits an
\* error event after the bot-response
AttemptSucceeds_ErrorAfterResponse(h, resp) ==
    /\ pc[h] = "call"
    /\ loc[h].i < attempts
    /\ loc' = [loc EXCEPT
                  ![h].llm_calls = Append(@, LlmCall(h, "main", loc[h].messages, FALSE)),
                  ![h].response = resp,
                  ![h].last_err = FALSE,
                  ![h].emitted =
                      @ \o << [type |-> "bot-response", to |-> loc[h].session_id,
                               text |-> DeliveredText(resp, loc[h].search_results),
                               searchResults |-> loc[h].search_results],
                              Event("error", loc[h].session_id) >>]
    /\ pc' = [pc EXCEPT ![h] = "done"]
    /\ UNCHANGED <<tasks, progress_data, env, conversations, user_documents, clock, accepted, docAdds, appended, inserted, reply>>

\* handle_message, lines 1107-1117 and 1127-1184: an attempt returns resp;
\* the loop breaks, the text is extracted (or the fallback built) and the
\* bot-response is emitted; an exception leaving the extractor would reach
\* the outer handler; self.conversations is not written
AttemptSucceeds(h, resp) ==
    /\ pc[h] = "call"
    /\ loc[h].i < attempts
    /\ loc' = [loc EXCEPT
                  ![h].llm_calls = Append(@, LlmCall(h, "main", loc[h].messages, FALSE)),
                  ![h].response = resp,
                  ![h].last_err = FALSE,
                  ![h].emitted =
                      IF ExtractorRaises(resp)
                      THEN Append(@, Event("error", loc[h].session_id))
                      ELSE Append(@, [type |-> "bot-response", to |-> loc[h].session_id,
                                      text |-> DeliveredText(resp, loc[h].search_results),
                                      searchResults |-> loc[h].search_results])]
    /\ pc' = [pc EXCEPT ![h] = "done"]
    /\ UNCHANGED <<tasks, progress_data, env, conversations, user_documents, clock, accepted, docAdds, appended, inserted, reply>>

\* handle_message, line 1185 (and line 807): return
Return(h) ==
    /\ pc[h] = "done"
    /\ pc' = [pc EXCEPT ![h] = "idle"]
    /\ loc' = [loc EXCEPT ![h] = IdleLoc]
    /\ UNCHANGED <<tasks, progress_data, env, conversations, user_documents, clock, accepted, docAdds, appended, inserted, reply>>

\* --------------------------------------------------------- document store
\* user.get('username') if user else 'anonymous'
UserId(user) == IF user = None THEN "anonymous" ELSE user

\* AddDocument with [:5] as the cut: the oldest 5 stay
AddDocument_KeepsOldest(docs, doc) ==
    LET added == Append(docs, doc)
    IN IF Len(added) > DocCap THEN SliceTo(added, DocCap) ELSE added

\* the list left in self.user_documents[user_id] by the append and the
\* "keep only the 5 most recent documents" step
AddDocument(docs, doc) ==
    LET added == Append(docs, doc)
    IN IF Len(added) > DocCap THEN SliceFrom(added, -DocCap) ELSE added

\* a stored document: filename, extracted content, datetime.now()
Document(filename, stamp) ==
    [filename |-> filename, content |-> <<"text of ", filename>>, timestamp |-> stamp]

\* the store after process_file / process_url stored a document for user
StoreDocument(store, user, filename, stamp) ==
    LET user_id == UserId(user)
        st == SetDefault(store, user_id)
    IN [st EXCEPT ![user_id] = AddDocument(st[user_id], Document(filename, stamp))]

\* upload_file.process_file, lines 339-353: the effect on the store
UploadStore(user, filename) ==
    /\ docAdds < MaxDocAdds
    /\ user_documents' = StoreDocument(user_documents, user, filename, docAdds + 1)
    /\ docAdds' = docAdds + 1
    /\ UNCHANGED <<tasks, progress_data, env, conversations, pc, loc, clock, accepted, appended, inserted, reply>>

\* scrape_url.process_url, lines 619-632: the effect on the store (the
\* route starts no task without a current user, lines 524-526)
ScrapeStore(user, pdf_filename) ==
    /\ user # None
    /\ docAdds < MaxDocAdds
    /\ user_documents' = StoreDocument(user_documents, user, pdf_filename, docAdds + 1)
    /\ docAdds' = docAdds + 1
    /\ UNCHANGED <<tasks, progress_data, env, conversations, pc, loc, clock, accepted, appended, inserted, reply>>

\* [doc for doc in user_docs if doc['filename'] != filename]
RECURSIVE WithoutFilename(_, _)
WithoutFilename(docs, filename) ==
    IF docs = <<>> THEN <<>>
    ELSE IF Head(docs).filename # filename
         THEN <<Head(docs)>> \o WithoutFilename(Tail(docs), filename)
         ELSE WithoutFilename(Tail(docs), filename)

\* RemoveResult without "del self.user_documents[user_id]": the emptied
\* list stays in the store
RemoveResult_KeepsEmptyEntry(store, user, filename) ==
    LET user_id == UserId(user)
    IN IF user = None THEN [status |-> 401, store |-> store]
       ELSE IF user_id \notin DOMAIN store THEN [status |-> 404, store |-> store]
       ELSE LET kept == WithoutFilename(store[user_id], filename)
                filtered == [store EXCEPT ![user_id] = kept]
            IN IF Len(kept) = Len(store[user_id])
               THEN [status |-> 404, store |-> filtered]
               ELSE [status |-> 200, store |-> filtered]

\* remove_document, lines 470-518: the status of the reply and the store
\* the request leaves
RemoveResult(store, user, filename) ==
    LET user_id == UserId(user)
    IN IF user = None THEN [status |-> 401, store |-> store]
       ELSE IF user_id \notin DOMAIN store THEN [status |-> 404, store |-> store]
       ELSE LET kept == WithoutFilename(store[user_id], filename)
                filtered == [store EXCEPT ![user_id] = kept]
            IN IF Len(kept) = Len(store[user_id])
               THEN [status |-> 404, store |-> filtered]
               ELSE IF Len(kept) = 0
               THEN [status |-> 200, store |-> DelKey(filtered, user_id)]
               ELSE [status |-> 200, store |-> filtered]

\* remove_document for an authenticated user: the effect on the store
RemoveDocument(user, filename) ==
    /\ user # None
    /\ user_documents' = RemoveResult(user_documents, user, filename).store
    /\ UNCHANGED <<tasks, progress_data, env, conversations, pc, loc, clock, accepted, docAdds, appended, inserted, reply>>

\* logout, lines 704-709: the store after the logout of user
LogoutResult(store, user) ==
    IF user # None /\ TruthyId(user) /\ user \in DOMAIN store
    THEN DelKey(store, user) ELSE store

\* logout, lines 701-714, requested by caller: the effect on the store
Logout(caller) ==
    /\ user_documents' = LogoutResult(user_documents, get_current_user("logout", caller))
    /\ UNCHANGED <<tasks, progress_data, env, conversations, pc, loc, clock, accepted, docAdds, appended, inserted, reply>>

\* handle_create_session, lines 765-768: the store after create-session
CreateSessionResult(store, username) ==
    IF username \in DOMAIN store THEN DelKey(store, username) ELSE store

\* handle_create_session, lines 759-768: the effect on the store
CreateSession(username) ==
    /\ user_documents' = CreateSessionResult(user_documents, username)
    /\ UNCHANGED <<tasks, progress_data, env, conversations, pc, loc, clock, accepted, docAdds, appended, inserted, reply>>

\* ------------------------------------------- document routes with replies
\* a reply of a document route to the caller (for create-session: to the
\* username of the payload), with the store the request found
Reply(route, caller, filename, status, documents) ==
    [route |-> route, user |-> caller, filename |-> filename, status |-> status,
     documents |-> documents, before |-> user_documents]

\* the history of a user after the store entry of the user changed to docs
\* by a removal or a clear: the documents that are left, none without entry
CutHistory(user_id, store) ==
    IF user_id \in DOMAIN store
    THEN [SetDefault(inserted, user_id) EXCEPT ![user_id] = store[user_id]]
    ELSE DelKey(inserted, user_id)

\* the background task of a route stores a document and completes; the
\* task replies to no request
Ingest(user, filename) ==
    /\ user_documents' = StoreDocument(user_documents, user, filename, docAdds + 1)
    /\ inserted' = [SetDefault(inserted, UserId(user)) EXCEPT
                       ![UserId(user)] = Append(@, Document(filename, docAdds + 1))]
    /\ docAdds' = docAdds + 1
    /\ reply' = NoReply
    /\ UNCHANGED <<tasks, progress_data, env, conversations, pc, loc, clock, accepted, appended>>

\* upload_file, lines 290-382, with its background task process_file
upload_file(caller, filename) == Ingest(get_current_user("upload", caller), filename)

\* scrape_url, lines 522-660, with its background task process_url; without
\* a current user the route replies 401 and starts no task
scrape_url(caller, pdf_filename) ==
    LET user == get_current_user("scrape", caller)
    IN IF user = None
       THEN /\ reply' = Reply("scrape", caller, None, 401, <<>>)
            /\ UNCHANGED <<tasks, progress_data, env, conversations, user_documents, pc, loc,
                           clock, accepted, docAdds, appended, inserted>>
       ELSE Ingest(user, pdf_filename)

\* remove_document, lines 470-518
remove_document(caller, filename) ==
    LET user == get_current_user("remove", caller)
        r == RemoveResult(user_documents, user, filename)
    IN /\ user_documents' = r.store
       /\ inserted' = IF r.status = 200 THEN CutHistory(UserId(user), r.store) ELSE inserted
       /\ reply' = Reply("remove", caller, filename, r.status, <<>>)
       /\ UNCHANGED <<tasks, progress_data, env, conversations, pc, loc, clock, accepted, docAdds, appended>>

\* document_list = [doc['filename'] for doc in user_docs]
DocumentList(user_docs) == [k \in 1..Len(user_docs) |-> user_docs[k].filename]

\* get_user_documents, lines 676-699
get_user_documents(caller) ==
    /\ LET user == get_current_user("list", caller)
       IN reply' = IF user = None THEN Reply("list", caller, None, 401, <<>>)
                   ELSE Reply("list", caller, None, 200, DocumentList(DocsOf(user)))
    /\ UNCHANGED <<tasks, progress_data, env, conversations, user_documents, pc, loc, clock, accepted, docAdds,
                   appended, inserted>>

\* logout, lines 701-714
logout(caller) ==
    /\ LET user == get_current_user("logout", caller)
       IN /\ user_documents' = LogoutResult(user_documents, user)
          /\ inserted' = IF user = None THEN inserted
                         ELSE CutHistory(user, LogoutResult(user_documents, user))
    /\ reply' = Reply("logout", caller, None, 302, <<>>)
    /\ UNCHANGED <<tasks, progress_data, env, conversations, pc, loc, clock, accepted, docAdds, appended>>

\* handle_create_session, lines 759-780
handle_create_session(username) ==
    /\ user_documents' = CreateSessionResult(user_documents, username)
    /\ inserted' = CutHistory(username, CreateSessionResult(user_documents, username))
    /\ reply' = Reply("create-session", username, None, 200, <<>>)
    /\ UNCHANGED <<tasks, progress_data, env, conversations, pc, loc, clock, accepted, docAdds, appended>>

\* ------------------------------------------------- background ingestion
\* update_progress(task_id, progress, message) on a progress table: the
\* entry is created when missing, its other fields stay
update_progress(table, task_id, progress) ==
    [k \in DOMAIN table \cup {task_id} |->
        IF k = task_id
        THEN [progress |-> progress,
              completed |-> IF task_id \in DOMAIN table THEN table[task_id].completed
                            ELSE FALSE]
        ELSE table[k]]

\* the outcomes of the content extraction of an uploaded PDF file
ExtractionOutcomes == {"text", "scanned_blank", "import_error", "raises"}

\* the progress values process_uploaded_file_with_progress and
\* _process_pdf_file_with_progress set, in order, for a PDF file: 20 and 30,
\* then 50 (and 60 before the OCR of a scanned file) and 95 when the content
\* was read, 95 after the ImportError notice was returned, and -1 when the
\* reading raised (line 1322)
ExtractionProgress(outcome) ==
    CASE outcome = "text" -> <<20, 30, 50, 95>>
      [] outcome = "scanned_blank" -> <<20, 30, 50, 60, 95>>
      [] outcome = "import_error" -> <<20, 30, 95>>
      [] outcome = "raises" -> <<20, 30, -1>>

\* what process_uploaded_file_with_progress returns: the text of the file,
\* nothing for a scanned file without recognisable text, the notice of
\* line 1390, or the error text of line 1323
ExtractionContent(outcome, filename) ==
    CASE outcome = "text" -> <<"text of ", filename>>
      [] outcome = "scanned_blank" -> <<" ">>
      [] outcome = "import_error" -> <<"PDF processing requires PyPDF2 library. Please install it.">>
      [] outcome = "raises" -> <<"Error processing file: ", "cannot read">>

\* the table after update_progress was called with each value of values
RECURSIVE UpdateAll(_, _, _)
UpdateAll(table, task_id, values) ==
    IF values = <<>> THEN table
    ELSE UpdateAll(update_progress(table, task_id, Head(values)), task_id, Tail(values))

\* upload_file, lines 290-322 and 384-394: the request of caller saves the
\* file, sets the progress to 0 and starts the thread process_file
StartUpload(t, caller, filename) ==
    /\ tasks[t].pc = "idle"
    /\ tasks' = [tasks EXCEPT ![t] = [IdleTask EXCEPT !.pc = "process", !.kind = "upload",
                                          !.user = get_current_user("upload", caller),
                                          !.filename = filename, !.set = <<0>>]]
    /\ progress_data' = update_progress(progress_data, t, 0)
    /\ UNCHANGED <<env, conversations, user_documents, pc, loc, clock, accepted, docAdds,
                   appended, inserted, reply>>

\* process_file, lines 326-337: progress 10, the extraction with its own
\* progress values, then -1 and return for a blank content, 98 otherwise
ProcessUpload(t, outcome) ==
    /\ tasks[t].pc = "process"
    /\ tasks[t].kind = "upload"
    /\ LET content == ExtractionContent(outcome, tasks[t].filename)
           values == <<10>> \o ExtractionProgress(outcome)
                          \o (IF Strip(content) = <<>> THEN <<-1>> ELSE <<98>>)
       IN /\ progress_data' = UpdateAll(progress_data, t, values)
          /\ tasks' = [tasks EXCEPT ![t].set = @ \o values,
                                    ![t].content = content,
                                    ![t].pc = IF Strip(content) = <<>>
                                              THEN "finished" ELSE "check"]
    /\ UNCHANGED <<env, conversations, user_documents, pc, loc, clock, accepted, docAdds,
                   appended, inserted, reply>>

\* scrape_url, lines 522-543 and 661-670: 401 without a current user;
\* otherwise the progress is set to 0 and the thread process_url started
StartScrape(t, caller, pdf_filename) ==
    /\ tasks[t].pc = "idle"
    /\ LET user == get_current_user("scrape", caller)
       IN IF user = None
          THEN /\ reply' = Reply("scrape", caller, None, 401, <<>>)
               /\ UNCHANGED <<tasks, progress_data>>
          ELSE /\ tasks' = [tasks EXCEPT ![t] =
                               [IdleTask EXCEPT !.pc = "process", !.kind = "scrape",
                                                !.user = user, !.filename = pdf_filename,
                                                !.set = <<0>>]]
               /\ progress_data' = update_progress(progress_data, t, 0)
               /\ UNCHANGED reply
    /\ UNCHANGED <<env, conversations, user_documents, pc, loc, clock, accepted, docAdds,
                   appended, inserted>>

\* the outcomes of fetching the page
ScrapeOutcomes == {"content", "empty", "raises"}

\* process_url, lines 548-617 and 656-659: progress 10 and 30, the fetch;
\* -1 and return without content or when a step raised, else 60, 80, 90
ProcessScrape(t, outcome) ==
    /\ tasks[t].pc = "process"
    /\ tasks[t].kind = "scrape"
    /\ LET values == <<10, 30>> \o (IF outcome = "content" THEN <<60, 80, 90>> ELSE <<-1>>)
       IN /\ progress_data' = UpdateAll(progress_data, t, values)
          /\ tasks' = [tasks EXCEPT ![t].set = @ \o values,
                                    ![t].content = IF outcome = "content"
                                                   THEN <<"page of ", tasks[t].filename>>
                                                   ELSE NoneT,
                                    ![t].pc = IF outcome = "content" THEN "check"
                                              ELSE "finished"]
    /\ UNCHANGED <<env, conversations, user_documents, pc, loc, clock, accepted, docAdds,
                   appended, inserted, reply>>

\* lines 341 and 622: if user_id not in self.user_documents
CheckEntry(t) ==
    /\ tasks[t].pc = "check"
    /\ tasks' = [tasks EXCEPT ![t].absent = UserId(tasks[t].user) \notin DOMAIN user_documents,
                              ![t].pc = IF UserId(tasks[t].user) \notin DOMAIN user_documents
                                        THEN "create" ELSE "append"]
    /\ UNCHANGED <<progress_data, env, conversations, user_documents, pc, loc, clock, accepted,
                   docAdds, appended, inserted, reply>>

\* lines 342 and 623: self.user_documents[user_id] = [], whatever the
\* entry holds by now
CreateEntry(t) ==
    /\ tasks[t].pc = "create"
    /\ user_documents' = [k \in DOMAIN user_documents \cup {UserId(tasks[t].user)} |->
                             IF k = UserId(tasks[t].user) THEN <<>> ELSE user_documents[k]]
    /\ tasks' = [tasks EXCEPT ![t].pc = "append"]
    /\ UNCHANGED <<progress_data, env, conversations, pc, loc, clock, accepted, docAdds,
                   appended, inserted, reply>>

\* lines 345-349 and 626-630: self.user_documents[user_id].append({...});
\* the lookup of the list and the append are taken as one step; without
\* the entry the KeyError reaches the handler of the thread (lines 373-382
\* and 656-659), which sets the progress to -1
AppendDocument(t) ==
    /\ tasks[t].pc = "append"
    /\ LET user_id == UserId(tasks[t].user)
           doc == [Document(tasks[t].filename, docAdds + 1) EXCEPT !.content = tasks[t].content]
       IN IF user_id \in DOMAIN user_documents
          THEN /\ user_documents' = [user_documents EXCEPT ![user_id] = Append(@, doc)]
               /\ inserted' = [SetDefault(inserted, user_id) EXCEPT
                                  ![user_id] = Append(SetDefault(inserted, user_id)[user_id], doc)]
               /\ docAdds' = docAdds + 1
               /\ tasks' = [tasks EXCEPT ![t].stored = TRUE, ![t].pc = "len"]
               /\ UNCHANGED progress_data
          ELSE /\ progress_data' = update_progress(progress_data, t, -1)
               /\ tasks' = [tasks EXCEPT ![t].set = Append(@, -1), ![t].pc = "finished"]
               /\ UNCHANGED <<user_documents, inserted, docAdds>>
    /\ UNCHANGED <<env, conversations, pc, loc, clock, accepted, appended, reply>>

\* lines 352 and 633: if len(self.user_documents[user_id]) > 5
CheckLength(t) ==
    /\ tasks[t].pc = "len"
    /\ LET user_id == UserId(tasks[t].user)
       IN IF user_id \in DOMAIN user_documents
          THEN /\ tasks' = [tasks EXCEPT
                               ![t].over = Len(user_documents[user_id]) > DocCap,
                               ![t].pc = IF Len(user_documents[user_id]) > DocCap
                                         THEN "slice" ELSE "complete"]
               /\ UNCHANGED progress_data
          ELSE /\ progress_data' = update_progress(progress_data, t, -1)
               /\ tasks' = [tasks EXCEPT ![t].set = Append(@, -1), ![t].pc = "finished"]
    /\ UNCHANGED <<env, conversations, user_documents, pc, loc, clock, accepted, docAdds,
                   appended, inserted, reply>>

\* lines 353 and 634, right-hand side: self.user_documents[user_id][-5:]
SliceLast(t) ==
    /\ tasks[t].pc = "slice"
    /\ LET user_id == UserId(tasks[t].user)
       IN IF user_id \in DOMAIN user_documents
          THEN /\ tasks' = [tasks EXCEPT
                               ![t].kept = SliceFrom(user_documents[user_id], -DocCap),
                               ![t].pc = "assign"]
               /\ UNCHANGED progress_data
          ELSE /\ progress_data' = update_progress(progress_data, t, -1)
               /\ tasks' = [tasks EXCEPT ![t].set = Append(@, -1), ![t].pc = "finished"]
    /\ UNCHANGED <<env, conversations, user_documents, pc, loc, clock, accepted, docAdds,
                   appended, inserted, reply>>

\* lines 353 and 634, the assignment: self.user_documents[user_id] = ...
AssignSlice(t) ==
    /\ tasks[t].pc = "assign"
    /\ user_documents' = [k \in DOMAIN user_documents \cup {UserId(tasks[t].user)} |->
                             IF k = UserId(tasks[t].user) THEN tasks[t].kept
                             ELSE user_documents[k]]
    /\ tasks' = [tasks EXCEPT ![t].pc = "complete"]
    /\ UNCHANGED <<progress_data, env, conversations, pc, loc, clock, accepted, docAdds,
                   appended, inserted, reply>>

\* lines 358-366 and 644-654: completed = True, then progress 100
Complete(t) ==
    /\ tasks[t].pc = "complete"
    /\ progress_data' = update_progress([progress_data EXCEPT ![t].completed = TRUE], t, 100)
    /\ tasks' = [tasks EXCEPT ![t].set = Append(@, 100), ![t].pc = "finished"]
    /\ UNCHANGED <<env, conversations, user_documents, pc, loc, clock, accepted, docAdds,
                   appended, inserted, reply>>

\* ------------------------------------------------------------ specification
HandlerStep(h) ==
    \/ \E m \in Messages, sessionId \in CamelIds, snake_id \in SnakeIds,
          username \in PayloadUsernames :
          Receive(h, Text(m), sessionId, snake_id, username)
    \/ RecordUserTurn(h)
    \/ BuildHistory(h)
    \/ \E raises \in BOOLEAN, r \in HelperResponses : RefineQuery(h, raises, r)
    \/ \E o \in SearchOutcomes : Search(h, o)
    \/ \E raises \in BOOLEAN, caller \in AuthUsers : LookupDocsAndCompose(h, raises, caller)
    \/ AttemptFails(h)
    \/ LastAttemptFails(h)
    \/ \E r \in MainResponses : AttemptSucceeds(h, r)
    \/ Return(h)

DocumentStep ==
    \/ \E user \in AuthUsers, f \in Filenames : UploadStore(user, f)
    \/ \E user \in AuthUsers, f \in Filenames : ScrapeStore(user, f)
    \/ \E user \in AuthUsers, f \in Filenames : RemoveDocument(user, f)
    \/ \E caller \in AuthUsers : Logout(caller)
    \/ \E username \in PayloadUsernames \cup AuthUsers : CreateSession(username)

Next ==
    \/ \E h \in Handlers : HandlerStep(h)
    \/ DocumentStep

Spec == Init /\ [][Next]_vars

\* the document routes alone, each with its reply
StoreNext ==
    \/ docAdds < MaxRouteAdds /\ \E caller \in AuthUsers, f \in Filenames : upload_file(caller, f)
    \/ docAdds < MaxRouteAdds /\ \E caller \in AuthUsers, f \in Filenames : scrape_url(caller, f)
    \/ \E caller \in AuthUsers, f \in Filenames : remove_document(caller, f)
    \/ \E caller \in AuthUsers : get_user_documents(caller)
    \/ \E caller \in AuthUsers : logout(caller)
    \/ \E username \in PayloadUsernames \cup AuthUsers \cup {"anonymous"} :
           handle_create_session(username)

\* the state after construction, under one environment (no document route
\* reads the environment)
StoreInit ==
    /\ Init
    /\ env = [CHAT_HISTORY_TURNS |-> MaxHistoryCfg, MAX_DOCS_TO_INJECT |-> DefaultMaxDocs,
              DEV_MODE |-> "production", ENABLE_AUTO_SEARCH |-> "true"]

SpecStore == StoreInit /\ [][StoreNext]_vars

\* the ingestion tasks alone: documents are only ever inserted
CapNext ==
    \/ docAdds < MaxStoreAdds /\ \E caller \in AuthUsers, f \in Filenames : upload_file(caller, f)
    \/ docAdds < MaxStoreAdds /\ \E caller \in AuthUsers, f \in Filenames : scrape_url(caller, f)

SpecCap == StoreInit /\ [][CapNext]_vars

\* the injection of documents: one user stores documents and lists them,
\* and a message is answered under each MAX_DOCS_TO_INJECT; the refinement
\* call fails, the search finds nothing and the model answers
InjectInit ==
    /\ env \in [CHAT_HISTORY_TURNS : {MaxHistoryCfg},
                MAX_DOCS_TO_INJECT : 0..MaxDocsCfg,
                DEV_MODE : {"production"},
                ENABLE_AUTO_SEARCH : {"false"}]
    /\ Constructed

InjectNext ==
    \/ docAdds < MaxInjectDocs /\ \E f \in Filenames : upload_file("alice", f)
    \/ \E caller \in AuthUsers : get_user_documents(caller)
    \/ \E h \in Handlers, username \in PayloadUsernames :
           Receive(h, Text("m1"), "s1", None, username)
    \/ \E h \in Handlers : RecordUserTurn(h)
    \/ \E h \in Handlers : BuildHistory(h)
    \/ \E h \in Handlers : RefineQuery(h, TRUE, NoResponse)
    \/ \E h \in Handlers, o \in SearchOutcomes : o.isnone /\ Search(h, o)
    \/ \E h \in Handlers, caller \in AuthUsers : LookupDocsAndCompose(h, FALSE, caller)
    \/ \E h \in Handlers : AttemptSucceeds(h, ContentResponse("sdk", <<"answer">>))
    \/ \E h \in Handlers : Return(h)

SpecInject == InjectInit /\ [][InjectNext]_vars

\* the extraction: one message is answered by every response of
\* ExtractorResponses; the refinement call fails and the search is on
ExtractInit ==
    /\ env = [CHAT_HISTORY_TURNS |-> MaxHistoryCfg, MAX_DOCS_TO_INJECT |-> DefaultMaxDocs,
              DEV_MODE |-> "production", ENABLE_AUTO_SEARCH |-> "true"]
    /\ Constructed

ExtractNext ==
    \/ \E h \in Handlers : Receive(h, Text("m1"), "s1", None, "alice")
    \/ \E h \in Handlers : RecordUserTurn(h)
    \/ \E h \in Handlers : BuildHistory(h)
    \/ \E h \in Handlers : RefineQuery(h, TRUE, NoResponse)
    \/ \E h \in Handlers, o \in SearchOutcomes :
           ~SearchFails(o) /\ Len(o.raw) = TopResults - 1 /\ Search(h, o)
    \/ \E h \in Handlers : LookupDocsAndCompose(h, FALSE, "alice")
    \/ \E h \in Handlers, r \in ExtractorResponses : AttemptSucceeds(h, r)
    \/ \E h \in Handlers : Return(h)

SpecExtract == ExtractInit /\ [][ExtractNext]_vars

\* the background threads: two ingestion tasks run step by step, in any
\* interleaving, after up to MaxPreload uploads that ran alone
TaskNext ==
    \/ /\ docAdds < MaxPreload
       /\ \A t \in Tasks : tasks[t].pc = "idle"
       /\ upload_file("alice", "a.pdf")
    \/ \E t \in Tasks, caller \in AuthUsers : StartUpload(t, caller, "b.pdf")
    \/ \E t \in Tasks, caller \in AuthUsers : StartScrape(t, caller, "a.pdf")
    \/ \E t \in Tasks, o \in ExtractionOutcomes : ProcessUpload(t, o)
    \/ \E t \in Tasks, o \in ScrapeOutcomes : ProcessScrape(t, o)
    \/ \E t \in Tasks : CheckEntry(t)
    \/ \E t \in Tasks : CreateEntry(t)
    \/ \E t \in Tasks : AppendDocument(t)
    \/ \E t \in Tasks : CheckLength(t)
    \/ \E t \in Tasks : SliceLast(t)
    \/ \E t \in Tasks : AssignSlice(t)
    \/ \E t \in Tasks : Complete(t)

SpecTasks == StoreInit /\ [][TaskNext]_vars

\* the sessions of the messages that are handled at the same time
TurnSessions == {"s1", "s3"}

\* two invocations of handle_message in threads of their own, each
\* recording its turn statement by statement; the refinement call fails,
\* the search is off and the model answers
TurnInit ==
    /\ env = [CHAT_HISTORY_TURNS |-> MaxHistoryCfg, MAX_DOCS_TO_INJECT |-> DefaultMaxDocs,
              DEV_MODE |-> "production", ENABLE_AUTO_SEARCH |-> "false"]
    /\ Constructed

TurnNext ==
    \/ /\ accepted < MaxTurnMsgs
       /\ \E h \in Invocations, sessionId \in TurnSessions :
              Accept(h, Text("m1"), sessionId, None, "alice")
    \/ \E h \in Invocations : GetConversation(h)
    \/ \E h \in Invocations : AppendTurn(h)
    \/ \E h \in Invocations : CheckTurns(h)
    \/ \E h \in Invocations : SliceTurns(h)
    \/ \E h \in Invocations : AssignTurns(h)
    \/ \E h \in Invocations : BuildHistory(h)
    \/ \E h \in Invocations : RefineQuery(h, TRUE, NoResponse)
    \/ \E h \in Invocations, o \in SearchOutcomes : o.isnone /\ Search(h, o)
    \/ \E h \in Invocations : LookupDocsAndCompose(h, FALSE, "alice")
    \/ \E h \in Invocations : AttemptSucceeds(h, ContentResponse("sdk", <<"answer">>))
    \/ \E h \in Invocations : Return(h)

SpecTurns == TurnInit /\ [][TurnNext]_vars

\* the snake_case session ids of the payloads of SpecFrame
FrameSnakeIds == {None, "s2", "s4"}

\* messages of several sessions, handled one at a time in strict mode
\* (the refinement call fails, the search is off, the model answers),
\* among the requests of the document routes
FrameNext ==
    \/ /\ accepted < MaxFrameMsgs
       /\ \A g \in Invocations : pc[g] = "idle"
       /\ \E h \in Handlers, sessionId \in CamelIds, snake_id \in FrameSnakeIds :
              Accept(h, Text("m1"), sessionId, snake_id, "alice")
    \/ \E h \in Handlers : RecordUserTurn(h)
    \/ \E h \in Handlers : BuildHistory(h)
    \/ \E h \in Handlers : RefineQuery(h, TRUE, NoResponse)
    \/ \E h \in Handlers, o \in SearchOutcomes : o.isnone /\ Search(h, o)
    \/ \E h \in Handlers : LookupDocsAndCompose(h, FALSE, "alice")
    \/ \E h \in Handlers : AttemptSucceeds(h, ContentResponse("sdk", <<"answer">>))
    \/ \E h \in Handlers : Return(h)
    \/ docAdds < MaxFrameAdds /\ \E caller \in AuthUsers : upload_file(caller, "a.pdf")
    \/ docAdds < MaxFrameAdds /\ \E caller \in AuthUsers : scrape_url(caller, "b.pdf")
    \/ \E caller \in AuthUsers, f \in Filenames : remove_document(caller, f)
    \/ \E caller \in AuthUsers : logout(caller)
    \/ \E username \in PayloadUsernames \cup {"anonymous"} : handle_create_session(username)

SpecFrame == TurnInit /\ [][FrameNext]_vars

\* ------------------------------------------------------------------ claims
\* the calls of the main completion made by invocation h, in order
MainCalls(h) == SelectSeq(loc[h].llm_calls, LAMBDA c : c.kind = "main")

\* the number of events of one type emitted by invocation h
CountEvents(h, type) ==
    Cardinality({k \in 1..Len(loc[h].emitted) : loc[h].emitted[k].type = type})

\* invocation h handles a message that was not dropped
Accepted(h) == pc[h] # "idle" /\ ~loc[h].dropped

\* every main-call attempt of invocation h was made and raised
Exhausted(h) ==
    /\ Len(MainCalls(h)) = attempts
    /\ \A k \in 1..attempts : MainCalls(h)[k].raised

\* invocation h got a response from the main call
Answered(h) ==
    /\ pc[h] = "done"
    /\ MainCalls(h) # <<>>
    /\ ~MainCalls(h)[Len(MainCalls(h))].raised

\* the last k elements of s
LastN(s, k) == SubSeq(s, Len(s) - Min(k, Len(s)) + 1, Len(s))

\* the buffer of a session (empty when the session has no entry)
Buffer(sid) == IF sid \in DOMAIN conversations THEN conversations[sid] ELSE <<>>

\* C1: the buffer of every session is exactly the last
\* min(n, 2 * max_history_turns) of the n turns appended to it so far, in
\* their order, so its length never exceeds 2 * max_history_turns.
C1_BufferIsLastTurns ==
    \A sid \in DOMAIN appended :
        /\ Buffer(sid) = LastN(appended[sid], 2 * env.CHAT_HISTORY_TURNS)
        /\ Len(Buffer(sid)) <= 2 * env.CHAT_HISTORY_TURNS

\* C2: once a text is delivered in a bot-response, the session's buffer
\* ends with the user turn followed by an assistant turn holding that text.
C2_DeliveredTextRecorded ==
    \A h \in Handlers :
        (pc[h] = "done" /\ CountEvents(h, "bot-response") > 0) =>
            LET buf == Buffer(loc[h].session_id)
                ev == loc[h].emitted[Len(loc[h].emitted)]
            IN /\ Len(buf) >= 2
               /\ buf[Len(buf) - 1] = loc[h].turn
               /\ buf[Len(buf)].role = "assistant"
               /\ buf[Len(buf)].content = ev.text

\* C3: when all 3 attempts of the main call raised, the handler has
\* emitted exactly one error event and no bot-response, and the buffer
\* holds the user turn and no assistant turn after it.
C3_ExhaustionEmitsOneError ==
    \A h \in Handlers :
        (pc[h] = "done" /\ Exhausted(h)) =>
            /\ CountEvents(h, "error") = 1
            /\ CountEvents(h, "bot-response") = 0
            /\ TurnRecorded(h)
            /\ \A k \in 1..Len(Buffer(loc[h].session_id)) :
                   Buffer(loc[h].session_id)[k].role = "assistant" =>
                       Buffer(loc[h].session_id)[k].timestamp < loc[h].turn.timestamp

C3_Witness ==
    \E h \in Handlers :
        /\ pc[h] = "done"
        /\ Exhausted(h)
        /\ CountEvents(h, "error") = 1
        /\ TurnRecorded(h)

\* C4: every call of the model (refinement or main) is made with the user
\* turn already in the session's buffer, and the turn is still there
\* afterwards, also when the generation failed.
C4_TurnRecordedBeforeModel ==
    \A h \in Handlers :
        /\ \A k \in 1..Len(loc[h].llm_calls) : loc[h].llm_calls[k].recorded
        /\ loc[h].llm_calls # <<>> => TurnRecorded(h)

C4_Witness ==
    \E h \in Handlers :
        /\ pc[h] = "done"
        /\ Exhausted(h)
        /\ loc[h].llm_calls[1].kind = "refine"
        /\ loc[h].llm_calls[1].recorded
        /\ TurnRecorded(h)

\* C5: the main completion is called at most 3 times per message and at
\* least once for an accepted message; every attempt but the last one
\* raised, so an attempt follows only failures and none follows a return.
C5_AttemptsBounded ==
    \A h \in Handlers :
        LET M == MainCalls(h)
        IN /\ Len(M) <= attempts
           /\ \A k \in 1..(Len(M) - 1) : M[k].raised
           /\ (pc[h] = "done" /\ ~loc[h].dropped) => Len(M) >= 1
           /\ (M # <<>> /\ ~M[Len(M)].raised) => pc[h] = "done"

C5_Witness ==
    \E h \in Handlers :
        /\ pc[h] = "done"
        /\ Len(MainCalls(h)) = 2
        /\ MainCalls(h)[1].raised
        /\ ~MainCalls(h)[2].raised

\* C6: outside dev mode a message without any session identifier is
\* dropped: the handler ends without emitting an event, appending a turn,
\* or calling the search or the model.
C6_MissingSessionDropped ==
    \A h \in Handlers :
        ( /\ pc[h] # "idle"
          /\ env.DEV_MODE # "dev"
          /\ ~TruthyId(loc[h].data.sessionId)
          /\ ~TruthyId(loc[h].data.session_id) ) =>
            /\ pc[h] = "done"
            /\ loc[h].emitted = <<>>
            /\ loc[h].turn = NoTurn
            /\ loc[h].llm_calls = <<>>
            /\ loc[h].search_calls = <<>>

C6_Witness ==
    \E h \in Handlers :
        /\ pc[h] = "done"
        /\ env.DEV_MODE = "production"
        /\ loc[h].data = [sessionId |-> None, session_id |-> None]
        /\ loc[h].message # <<>>
        /\ loc[h].emitted = <<>>

\* the blank-answer case: the main call returned and the extracted text is
\* empty or whitespace only
BlankAnswer(h) ==
    /\ Answered(h)
    /\ Strip(_extract_llm_message(loc[h].response)) = <<>>

\* the tokens of the k-th numbered line of a fallback text
LineOf(text, k) == SubSeq(text, 2 + 9 * (k - 1) + 1, 2 + 9 * (k - 1) + 8)

\* C7: when the main call returned and the extracted text is blank, the
\* bot-response text is the inability sentence, a newline, and the lines
\* "k. title - snippet (URL: link)" of the first min(3, n) results in
\* retrieval order, separated by newlines; no error event is emitted.
C7_FallbackText ==
    \A h \in Handlers :
        BlankAnswer(h) =>
            LET text == loc[h].emitted[Len(loc[h].emitted)].text
                res == loc[h].search_results
                m == Min(3, Len(res))
            IN /\ loc[h].emitted[Len(loc[h].emitted)].type = "bot-response"
               /\ CountEvents(h, "error") = 0
               /\ Len(text) = 2 + 8 * m + (IF m > 0 THEN m - 1 ELSE 0)
               /\ text[1] = InabilitySentence
               /\ text[2] = "\n"
               /\ \A k \in 1..m :
                      /\ LineOf(text, k) = <<ToString(k), ". ", res[k].title, " - ",
                                             res[k].snippet, " (URL: ", res[k].link, ")">>
                      /\ k > 1 => text[2 + 9 * (k - 1)] = "\n"

C7_Witness ==
    \E h \in Handlers :
        /\ BlankAnswer(h)
        /\ Len(loc[h].search_results) > 3
        /\ Len(loc[h].emitted[Len(loc[h].emitted)].text) > 2

\* C8: whatever fails among the refinement call, the search and the
\* document lookup, an accepted message reaches the main model call, and
\* an error event is emitted only when all attempts of the main call raised.
C8_RetrievalFailuresAbsorbed ==
    \A h \in Handlers :
        /\ (pc[h] = "done" /\ ~loc[h].dropped) => Len(MainCalls(h)) >= 1
        /\ CountEvents(h, "error") > 0 => Exhausted(h)

C8_Witness ==
    \E h \in Handlers :
        /\ Answered(h)
        /\ loc[h].llm_calls[1].kind = "refine"
        /\ loc[h].llm_calls[1].raised
        /\ loc[h].faults = {"search", "docs"}
        /\ CountEvents(h, "bot-response") = 1
        /\ CountEvents(h, "error") = 0

\* the kind of a block of the final call, read off its role and its text
BlockKind(b) ==
    IF b.role = "system"
    THEN IF b.content # <<>> /\ Head(b.content) = TopResultsHeader THEN "search"
         ELSE IF b.content # <<>> /\ Head(b.content) = DocSystemInstructions THEN "docs"
         ELSE "instruction"
    ELSE IF b.role = "user" /\ b.content # <<>> /\ Head(b.content) = TimeContext
         THEN "final"
         ELSE "history"

KindRank(kind) ==
    CASE kind = "instruction" -> 1
      [] kind = "history" -> 2
      [] kind = "search" -> 3
      [] kind = "docs" -> 4
      [] kind = "final" -> 5

KindCount(msgs, kind) == Cardinality({k \in 1..Len(msgs) : BlockKind(msgs[k]) = kind})

\* C9: the messages of every main call are one system instruction, then
\* the history blocks, then at most one search-results block (only with
\* search results), then at most one documents block (only with documents
\* to inject), then exactly one final user block, in this order.
C9_PromptOrder ==
    \A h \in Handlers :
        \A c \in 1..Len(MainCalls(h)) :
            LET msgs == MainCalls(h)[c].messages
            IN /\ \A j, k \in 1..Len(msgs) :
                      j < k => KindRank(BlockKind(msgs[j])) <= KindRank(BlockKind(msgs[k]))
               /\ KindCount(msgs, "instruction") = 1
               /\ KindCount(msgs, "final") = 1
               /\ KindCount(msgs, "search") <= 1
               /\ KindCount(msgs, "docs") <= 1
               /\ KindCount(msgs, "search") = 1 => loc[h].search_results # <<>>
               /\ KindCount(msgs, "docs") = 1 => loc[h].injected # <<>>

C9_Witness ==
    \E h \in Handlers :
        /\ MainCalls(h) # <<>>
        /\ LET msgs == MainCalls(h)[1].messages
           IN /\ Len(msgs) = 5
              /\ BlockKind(msgs[2]) = "history"
              /\ BlockKind(msgs[3]) = "search"
              /\ BlockKind(msgs[4]) = "docs"

\* C10: for the first message of a session, without search results and
\* without documents of the user, the messages of the main call are
\* exactly two blocks: the system instruction and the final user turn.
C10_MinimalPromptTwoBlocks ==
    \A h \in Handlers :
        \A c \in 1..Len(MainCalls(h)) :
            ( /\ loc[h].session_id \in DOMAIN appended
              /\ appended[loc[h].session_id] = <<loc[h].turn>>
              /\ loc[h].search_results = <<>>
              /\ loc[h].injected = <<>>
              /\ "docs" \notin loc[h].faults ) =>
                /\ Len(MainCalls(h)[c].messages) = 2
                /\ BlockKind(MainCalls(h)[c].messages[1]) = "instruction"
                /\ BlockKind(MainCalls(h)[c].messages[2]) = "final"

\* invocation h is past the building of the history blocks
PastHistory(h) == pc[h] \in {"refine", "search", "docs", "call", "done"} /\ ~loc[h].dropped

\* invocation h is past the search step
PastSearch(h) == pc[h] \in {"docs", "call", "done"} /\ ~loc[h].dropped

\* C11: the history blocks of the prompt are at most max_history_turns in
\* number and are the role-tagged last min(max_history_turns, n) turns of
\* the session's buffer, oldest first.
C11_HistoryIsRecentTurns ==
    \A h \in Handlers :
        PastHistory(h) =>
            LET n == env.CHAT_HISTORY_TURNS
                recent == LastN(Buffer(loc[h].session_id), n)
                hm == loc[h].history_messages
            IN /\ Len(hm) <= n
               /\ Len(hm) = Len(recent)
               /\ \A k \in 1..Len(hm) :
                      /\ hm[k].content = recent[k].content
                      /\ hm[k].role = IF recent[k].role = "user" THEN "user" ELSE "assistant"

\* C17: the list the retrieval gateway returned, and the searchResults of
\* every bot-response, have at most 3 entries.
C17_AtMostThreeResults ==
    \A h \in Handlers :
        /\ Len(loc[h].search_results) <= 3
        /\ \A k \in 1..Len(loc[h].emitted) : Len(loc[h].emitted[k].searchResults) <= 3

\* C18: the retrieval gateway never raises (the handler goes on to the
\* documents step and no error event comes from the search); when the
\* search capability raised or returned a malformed item, and when the
\* search is disabled, the list is empty; when the search is disabled the
\* search capability is not called.
C18_GatewayAbsorbsFailures ==
    \A h \in Handlers :
        /\ (pc[h] = "done" /\ ~loc[h].dropped) => MainCalls(h) # <<>>
        /\ (CountEvents(h, "error") > 0) => Exhausted(h)
        /\ PastSearch(h) =>
              /\ "search" \in loc[h].faults => loc[h].search_results = <<>>
              /\ ~SearchEnabled(env.ENABLE_AUTO_SEARCH) =>
                    /\ loc[h].search_results = <<>>
                    /\ loc[h].search_calls = <<>>
        /\ \A k \in 1..Len(loc[h].search_results) :
              /\ loc[h].search_results[k].isdict
              /\ loc[h].search_results[k].title # None
              /\ loc[h].search_results[k].link # None

C18_Witness ==
    \E h \in Handlers :
        /\ Answered(h)
        /\ "search" \in loc[h].faults
        /\ Len(loc[h].search_calls) = 1
        /\ loc[h].search_results = <<>>
        /\ CountEvents(h, "error") = 0

\* the refinement call of invocation h raised
RefinementRaised(h) ==
    /\ loc[h].llm_calls # <<>>
    /\ loc[h].llm_calls[1].kind = "refine"
    /\ loc[h].llm_calls[1].raised

\* C19: the search capability is called at most once per message; the
\* query it gets is the stripped first line of the text extracted from the
\* refinement response when that line is non-empty, and the raw user
\* message when the refinement call raised, or the text or its first line
\* is empty.
C19_QueryForSearch ==
    \A h \in Handlers :
        /\ Len(loc[h].search_calls) <= 1
        /\ (PastSearch(h) /\ SearchEnabled(env.ENABLE_AUTO_SEARCH)) =>
              LET t == loc[h].helper_text
                  line == Strip(FirstLine(t))
              IN /\ Len(loc[h].search_calls) = 1
                 /\ loc[h].search_calls[1] =
                        IF RefinementRaised(h) \/ ~Truthy(t) \/ line = <<>>
                        THEN loc[h].message
                        ELSE line

C19_Witness ==
    \E h \in Handlers :
        /\ PastSearch(h)
        /\ ~RefinementRaised(h)
        /\ loc[h].helper_text = <<" ", "q1", " ", "\n", "more">>
        /\ loc[h].search_calls = << <<"q1">> >>

\* the collection of a user in a store (empty when the user has no entry)
CollectionIn(store, user_id) == IF user_id \in DOMAIN store THEN store[user_id] ELSE <<>>

\* C12: after any sequence of completed insertions the collection of a
\* user holds at most 5 documents: all the inserted ones while they are at
\* most 5, and exactly the 5 most recently inserted, in insertion order,
\* once more than 5 were inserted.
C12_FiveMostRecent ==
    /\ DOMAIN user_documents = DOMAIN inserted
    /\ \A u \in DOMAIN user_documents :
          /\ Len(user_documents[u]) <= 5
          /\ user_documents[u] = LastN(inserted[u], 5)
          /\ \A j, k \in 1..Len(user_documents[u]) :
                 j < k => user_documents[u][j].timestamp < user_documents[u][k].timestamp

C12_Witness ==
    \E u \in DOMAIN user_documents :
        /\ Len(inserted[u]) = 6
        /\ Len(user_documents[u]) = 5
        /\ user_documents[u][1] = inserted[u][2]
        /\ user_documents[u][5] = inserted[u][6]

\* C13: no two documents of one collection have the same filename (an
\* insertion under a filename already present replaces the earlier one).
C13_FilenameIsUniqueKey ==
    \A u \in DOMAIN user_documents :
        \A j, k \in 1..Len(user_documents[u]) :
            j # k => user_documents[u][j].filename # user_documents[u][k].filename

\* the documents of docs whose filename is not f, in their order
Others(docs, f) == SelectSeq(docs, LAMBDA d : d.filename # f)

\* C14: after remove(user, filename) by an authenticated user the
\* collection is the earlier one without the documents of that filename,
\* the others in their order; the reply is not-found exactly when no
\* document matched, and then the store is unchanged; no user, and in
\* particular not this one, is left with an empty collection; the
\* collections of the other users are unchanged.
C14_RemoveByFilename ==
    (reply.route = "remove" /\ reply.user # None) =>
        LET u == UserId(reply.user)
            was == CollectionIn(reply.before, u)
            kept == Others(was, reply.filename)
        IN /\ CollectionIn(user_documents, u) = kept
           /\ reply.status \in {200, 404}
           /\ reply.status = 404 <=> kept = was
           /\ reply.status = 404 => user_documents = reply.before
           /\ kept = <<>> => u \notin DOMAIN user_documents
           /\ \A v \in DOMAIN user_documents : user_documents[v] # <<>>
           /\ \A v \in (DOMAIN reply.before \cup DOMAIN user_documents) \ {u} :
                  CollectionIn(user_documents, v) = CollectionIn(reply.before, v)

C14_Witness ==
    /\ reply.route = "remove"
    /\ reply.status = 200
    /\ reply.user = "alice"
    /\ Len(CollectionIn(reply.before, "alice")) = 2
    /\ "alice" \notin DOMAIN user_documents
    /\ "anonymous" \in DOMAIN user_documents

\* C15: after a logout by a user, and after a create-session naming a
\* user, that user has no entry in the document store and the collections
\* of all other users are as they were.
C15_ClearOnLogoutAndSession ==
    ((reply.route = "logout" /\ reply.user # None) \/ reply.route = "create-session") =>
        /\ reply.user \notin DOMAIN user_documents
        /\ DOMAIN user_documents = (DOMAIN reply.before) \ {reply.user}
        /\ \A v \in DOMAIN user_documents : user_documents[v] = reply.before[v]

\* invocation h is past the lookup of the documents, which did not fail
PastDocs(h) == pc[h] \in {"call", "done"} /\ ~loc[h].dropped /\ "docs" \notin loc[h].faults

\* C16: the documents injected into the prompt are the
\* min(max_docs, n) most recently inserted documents of the collection that
\* was looked up, newest first, so at most max_docs; the listing returns
\* the filenames of the whole collection in insertion order.
C16_InjectNewestFirst ==
    /\ \A h \in Handlers :
          PastDocs(h) =>
              LET n == env.MAX_DOCS_TO_INJECT
                  recent == LastN(loc[h].user_docs, n)
                  inj == loc[h].injected
              IN /\ Len(inj) <= n
                 /\ Len(inj) = Len(recent)
                 /\ \A k \in 1..Len(inj) : inj[k] = recent[Len(recent) + 1 - k]
                 /\ \A j, k \in 1..Len(inj) : j < k => inj[j].timestamp > inj[k].timestamp
    /\ (reply.route = "list" /\ reply.status = 200) =>
          LET col == CollectionIn(reply.before, reply.user)
          IN /\ Len(reply.documents) = Len(col)
             /\ \A k \in 1..Len(col) : reply.documents[k] = col[k].filename

\* a dict response whose first choice has the documented field types
TypedDict(response) ==
    /\ response.kind = "dict"
    /\ Len(response.choices) = 1
    /\ response.choices[1] \in TypedChoices

\* the candidates of a typed first choice, in the order of C20
Candidates(c) ==
    LET fc == IF c.message.function_call.present THEN c.message.function_call
              ELSE c.function_call
        delta == IF c.delta.isdict THEN c.delta ELSE c.message.delta
    IN << c.message.content,
          IF fc.present
          THEN <<"[function_call] ", fc.name, "(", JsonDumps(fc.arguments), ")">>
          ELSE <<>>,
          c.text,
          delta.content, delta.text, delta.message >>

\* a text that is present, non-empty and not whitespace only
Filled(t) == t # NoneT /\ \E k \in 1..Len(t) : t[k] \notin Whitespace

\* the first filled element of a sequence of texts, '' when there is none
FirstFilled(ts) ==
    IF \E k \in 1..Len(ts) : Filled(ts[k])
    THEN ts[CHOOSE k \in 1..Len(ts) : Filled(ts[k]) /\ \A j \in 1..(k - 1) : ~Filled(ts[j])]
    ELSE <<>>

Unrecognized(response) ==
    \/ response.kind = "other"
    \/ response.choices = <<>>
    \/ /\ response.kind = "dict"
       /\ \/ ~response.choices[1].isdict
          \/ /\ response.choices[1].message.kind = "dict"
             /\ ~NonBlank(response.choices[1].message.content)
             /\ response.choices[1].function_call.present
             /\ ~response.choices[1].function_call.isdict

\* C21: whatever the shape of the response the main call returned, the
\* extractor raises nothing (no error event follows the response) and
\* returns a text, never None; a blank text, and every unrecognized shape,
\* gets the bot-response with the fallback text, any other text is
\* delivered as it is.
C21_ExtractorNeverRaises ==
    \A h \in Handlers :
        Answered(h) =>
            LET t == _extract_llm_message(loc[h].response)
                ev == loc[h].emitted[Len(loc[h].emitted)]
            IN /\ CountEvents(h, "error") = 0
               /\ CountEvents(h, "bot-response") = 1
               /\ ev.type = "bot-response"
               /\ t # NoneT
               /\ Unrecognized(loc[h].response) => t = <<>>
               /\ ev.text = IF Strip(t) = <<>> THEN FallbackText(loc[h].search_results)
                            ELSE t

C21_Witness ==
    \E h \in Handlers :
        /\ Answered(h)
        /\ loc[h].response.kind = "dict"
        /\ loc[h].response.choices # <<>>
        /\ ~loc[h].response.choices[1].isdict
        /\ loc[h].response.choices[1].text = <<"txt">>
        /\ CountEvents(h, "error") = 0
        /\ Len(loc[h].search_results) = 2
        /\ loc[h].emitted[Len(loc[h].emitted)].text = FallbackText(loc[h].search_results)

\* no ingestion thread is between its start and its end
NoTaskRunning == \A t \in Tasks : tasks[t].pc \in {"idle", "finished"}

\* C22: once the ingestion tasks have ended, whatever their interleaving,
\* no insertion is lost: the collection of a user holds every document
\* inserted for the user while these are at most 5, and exactly the 5 most
\* recently inserted ones otherwise.
C22_AddThenEvictAtomic ==
    NoTaskRunning =>
        \A u \in DOMAIN inserted :
            /\ Len(inserted[u]) <= 5 => CollectionIn(user_documents, u) = inserted[u]
            /\ Len(inserted[u]) > 5 =>
                  CollectionIn(user_documents, u) = LastN(inserted[u], 5)
            /\ \A t \in Tasks :
                  (tasks[t].stored /\ UserId(tasks[t].user) = u) =>
                      \E k \in 1..Len(CollectionIn(user_documents, u)) :
                          /\ user_documents[u][k].filename = tasks[t].filename
                          /\ user_documents[u][k].content = tasks[t].content

\* C27: once the progress of a task was set to -1 it is never set to
\* another value, the task is not marked completed, and the task adds no
\* document to the collection of its user.
C27_FailureIsTerminal ==
    \A t \in Tasks :
        LET set == tasks[t].set
        IN (\E j \in 1..Len(set) : set[j] = -1) =>
              /\ \A j, k \in 1..Len(set) : (j < k /\ set[j] = -1) => set[k] = -1
              /\ progress_data[t].progress = -1
              /\ ~progress_data[t].completed
              /\ ~tasks[t].stored

\* no invocation is inside the recording of its turn
NoneRecording == \A h \in Invocations : pc[h] \notin {"record", "append", "len", "slice", "assign"}

\* C23: once the invocations have recorded their turns, whatever their
\* interleaving, the buffer of a session is the most recent
\* 2 * max_history_turns of the turns appended to it, in the order of the
\* appends: the turn of every invocation is in it unless that many turns
\* were appended after it, and only the oldest turns are gone.
C23_AppendThenTrimAtomic ==
    NoneRecording =>
        \A sid \in DOMAIN appended :
            LET cap == 2 * env.CHAT_HISTORY_TURNS
                all == appended[sid]
            IN /\ \A k \in 1..Len(all) :
                      k > Len(all) - cap =>
                          \E j \in 1..Len(Buffer(sid)) : Buffer(sid)[j] = all[k]
               /\ \A j \in 1..Len(Buffer(sid)) :
                      \E k \in 1..Len(all) : k > Len(all) - cap /\ Buffer(sid)[j] = all[k]
               /\ \A i, j \in 1..Len(Buffer(sid)) :
                      i < j => Buffer(sid)[i].timestamp < Buffer(sid)[j].timestamp

\* the session identifier the payload of the message of invocation h named
SessionOf(h) == OrId(loc[h].data.sessionId, loc[h].data.session_id)

\* the user whose documents the request served by this step adds, removes
\* or clears (None when the step serves no such request)
UserOfStep ==
    IF reply'.route = "remove" THEN UserId(reply'.user)
    ELSE IF reply'.route \in {"logout", "create-session"} THEN reply'.user
    ELSE IF \E u \in DOMAIN inserted' : CollectionIn(inserted', u) # CollectionIn(inserted, u)
         THEN CHOOSE u \in DOMAIN inserted' :
                  CollectionIn(inserted', u) # CollectionIn(inserted, u)
         ELSE None

\* C24: a step of the handling of a message changes the buffer of no
\* session but the one the message named, and a step that adds, removes or
\* clears documents of a user changes the collection of no other user.
C24_IndependentKeys ==
    [][ /\ \A h \in Invocations :
              (pc[h] # "idle" /\ (pc'[h] # pc[h] \/ loc'[h] # loc[h])) =>
                  \A k \in (DOMAIN conversations \cup DOMAIN conversations') \ {SessionOf(h)} :
                      CollectionIn(conversations', k) = CollectionIn(conversations, k)
        /\ (\A h \in Invocations : pc'[h] = pc[h] /\ loc'[h] = loc[h]) =>
              \A u \in (DOMAIN user_documents \cup DOMAIN user_documents') \ {UserOfStep} :
                  CollectionIn(user_documents', u) = CollectionIn(user_documents, u)
      ]_vars

\* the message of invocation h was accepted in strict mode
AcceptedStrict(h) == pc[h] # "idle" /\ ~loc[h].dropped /\ env.DEV_MODE # "dev"

\* C28: in strict mode no buffer is keyed by an absent session identifier:
\* the turn of an accepted message is recorded under the identifier its
\* payload named, camelCase or snake_case, and its events go to it.
C28_RecordedUnderPayloadSession ==
    /\ env.DEV_MODE # "dev" => None \notin DOMAIN conversations
    /\ \A h \in Handlers :
          AcceptedStrict(h) =>
              /\ TruthyId(SessionOf(h))
              /\ loc[h].session_id = SessionOf(h)
              /\ \A k \in 1..Len(loc[h].emitted) : loc[h].emitted[k].to = SessionOf(h)
              /\ loc[h].turn # NoTurn =>
                    \E k \in 1..Len(Buffer(SessionOf(h))) : Buffer(SessionOf(h))[k] = loc[h].turn

\* C25: the retry delay is applied only between two attempts of the main
\* call: none when the first attempt returned, one less than the attempts
\* made in general, so exactly 2 when all 3 attempts raised and the error
\* event is emitted.
C25_DelayOnlyBetweenAttempts ==
    \A h \in Handlers :
        /\ (Answered(h) /\ Len(MainCalls(h)) = 1) => loc[h].sleeps = 0
        /\ (pc[h] = "done" /\ MainCalls(h) # <<>>) => loc[h].sleeps = Len(MainCalls(h)) - 1
        /\ (pc[h] = "done" /\ Exhausted(h)) =>
              /\ loc[h].sleeps = 2
              /\ CountEvents(h, "error") = 1

\* the turns appended to the buffer of the session of invocation h before
\* its own turn
PriorTurns(h) ==
    SelectSeq(CollectionIn(appended, loc[h].session_id),
              LAMBDA t : t.timestamp < loc[h].turn.timestamp)

\* the blocks of msgs whose text is the user message of invocation h, alone
\* or after the time context of the final user block
MessageBlocks(h, msgs) ==
    {k \in 1..Len(msgs) :
        /\ msgs[k].role = "user"
        /\ \/ msgs[k].content = loc[h].message
           \/ msgs[k].content = <<TimeContext, "\n\nUser Query: ">> \o loc[h].message}

\* C26: the history blocks built for a message are blocks of turns
\* recorded before it, never of the message itself, and in the messages of
\* the main call the current message is in one block only, the final user
\* block.
C26_HistoryExcludesCurrent ==
    \A h \in Handlers :
        /\ (PastHistory(h) /\ loc[h].turn # NoTurn) =>
              LET hm == loc[h].history_messages
                  prior == PriorTurns(h)
              IN /\ Len(hm) <= Len(prior)
                 /\ \A k \in 1..Len(hm) :
                        hm[k].content = prior[Len(prior) - Len(hm) + k].content
        /\ \A c \in 1..Len(MainCalls(h)) :
              /\ Cardinality(MessageBlocks(h, MainCalls(h)[c].messages)) = 1
              /\ MessageBlocks(h, MainCalls(h)[c].messages) =
                     {Len(MainCalls(h)[c].messages)}

\* C29: the documents injected into the prompt of a message are documents
\* stored for the authenticated sender of the message, whatever username
\* the payload carries: with a username that is not the sender's the same
\* documents are injected as with the sender's own.
C29_InjectsOnlySendersDocuments ==
    \A h \in Handlers :
        PastDocs(h) =>
            /\ \A k \in 1..Len(loc[h].injected) :
                  \E j \in 1..Len(CollectionIn(inserted, UserId(loc[h].sender))) :
                      inserted[UserId(loc[h].sender)][j] = loc[h].injected[k]
            /\ loc[h].username # UserId(loc[h].sender) =>
                  \A k \in 1..Len(loc[h].injected) :
                      \A j \in 1..Len(CollectionIn(inserted, loc[h].username)) :
                          inserted[loc[h].username][j] # loc[h].injected[k]

\* the terminal events invocation h has emitted
TerminalEvents(h) == CountEvents(h, "bot-response") + CountEvents(h, "error")

\* C30: an accepted message has no terminal event while it is handled and
\* exactly one when the handler ends, a bot-response or an error, whatever
\* the refinement call, the search, the document lookup, the attempts of
\* the main call and the extraction did.
C30_OneTerminalEvent ==
    \A h \in Handlers :
        /\ (Accepted(h) /\ pc[h] # "done") => TerminalEvents(h) = 0
        /\ (Accepted(h) /\ pc[h] = "done") => TerminalEvents(h) = 1
        /\ loc[h].dropped => TerminalEvents(h) = 0

C30_Witness ==
    \E h \in Handlers :
        /\ Accepted(h)
        /\ pc[h] = "done"
        /\ RefinementRaised(h)
        /\ loc[h].faults = {"search", "docs"}
        /\ Len(MainCalls(h)) = 3
        /\ ~MainCalls(h)[3].raised
        /\ Strip(_extract_llm_message(loc[h].response)) = <<>>
        /\ CountEvents(h, "bot-response") = 1
        /\ CountEvents(h, "error") = 0

====
